---- MODULE Spec2Model ----
(***************************************************************************)
(* Model of the ITF match-record repair scripts.                           *)
(*                                                                         *)
(* Part 1: the conditional nullification engine, itf_fix_nan.main.         *)
(* Every rule of the engine is row-wise (a boolean mask per row, or a loop *)
(* over df.index that touches only the row it is on), so the table is      *)
(* modelled by one row, df: its match_score, its six set scores and its    *)
(* 160 statistic cells (2 sides x 4 scopes x 20 counters).  A cell holds   *)
(* NaN, 0 or a positive count.                                             *)
(***************************************************************************)
EXTENDS Integers, FiniteSets, Sequences, TLC

\* ------------------------------------------------------------------------
\* Values
\* ------------------------------------------------------------------------

\* the missing-value marker of a numeric cell (np.nan)
NaN == -1

\* a score cell holding a text that is no number: not missing, equal to no
\* number, and int() of it raises ValueError
Unparseable == -2

\* largest statistic value the inputs hold
MaxStat == 1

StatVals == {NaN} \cup (0 .. MaxStat)

\* ------------------------------------------------------------------------
\* Columns
\* ------------------------------------------------------------------------

SIDES == <<"home", "away">>

PER_SET_STATS ==
    << "service_pts_won", "service_pts_played",
       "return_pts_won", "return_pts_played",
       "service_games_won", "service_games_played",
       "return_games_won", "return_games_played",
       "tb_serve_pts_won", "tb_serve_pts_played",
       "tb_return_pts_won", "tb_return_pts_played",
       "bp_saved", "bp_faced", "bp_converted", "bp_opportunities",
       "sp_saved", "sp_faced",
       "mp_saved", "mp_faced" >>

TB_STATS ==
    { "tb_serve_pts_won", "tb_serve_pts_played",
      "tb_return_pts_won", "tb_return_pts_played" }

\* the (saved, faced) and (converted, opportunities) pairs of rules 6-7
CONDITIONAL_NAN_PAIRS ==
    { <<"bp_saved", "bp_faced">>, <<"bp_converted", "bp_opportunities">>,
      <<"sp_saved", "sp_faced">>, <<"mp_saved", "mp_faced">> }

\* scope 0 is the match level ("home_bp_saved"), scope n the set n
\* ("home_s2_bp_saved")
Scopes == 0 .. 3

Sets == 1 .. 3

NumStats == Len(PER_SET_STATS)

NumScopes == Cardinality(Scopes)

\* stat_cols: the statistic columns, in table order: side, then scope, then
\* counter
StatCols == 1 .. (Len(SIDES) * NumScopes * NumStats)

SideOf(c) == SIDES[((c - 1) \div (NumScopes * NumStats)) + 1]

ScopeOf(c) == ((c - 1) % (NumScopes * NumStats)) \div NumStats

StatOf(c) == PER_SET_STATS[((c - 1) % NumStats) + 1]

\* the column "<side>_<stat>" (scope 0) or "<side>_s<scope>_<stat>"
Col(side, scope, stat) ==
    LET i == CHOOSE k \in 1 .. Len(SIDES) : SIDES[k] = side
        j == CHOOSE k \in 1 .. NumStats : PER_SET_STATS[k] = stat
    IN  (i - 1) * NumScopes * NumStats + scope * NumStats + j

StatNames == { PER_SET_STATS[k] : k \in 1 .. NumStats }

SideNames == { SIDES[k] : k \in 1 .. Len(SIDES) }

\* the columns whose name contains "_s<n>_"
SetCols(n) == { Col(side, n, stat) : side \in SideNames, stat \in StatNames }

s3_cols == SetCols(3)

s2_cols == SetCols(2)

tb_per_set_cols(n) == { Col(side, n, stat) : side \in SideNames, stat \in TB_STATS }

overall_tb_cols == { Col(side, 0, stat) : side \in SideNames, stat \in TB_STATS }

\* only mp_saved and mp_faced exist in the table: the comprehension's
\* "in df.columns" filter drops converted and opportunities
s1_mp_cols ==
    { Col(side, 1, stat) :
        side \in SideNames,
        stat \in {"mp_saved", "mp_faced", "mp_converted", "mp_opportunities"}
                    \cap StatNames }

\* ------------------------------------------------------------------------
\* Table helpers
\* ------------------------------------------------------------------------

isna(v) == v = NaN

notna(v) == v # NaN

\* df['home_set<n>'], df['away_set<n>']
home_set(d, n) ==
    IF n = 1 THEN d.home_set1 ELSE IF n = 2 THEN d.home_set2 ELSE d.home_set3

away_set(d, n) ==
    IF n = 1 THEN d.away_set1 ELSE IF n = 2 THEN d.away_set2 ELSE d.away_set3

\* df[columns].isna().sum().sum()
count_nans(d, columns) == Cardinality({ c \in columns : isna(d.stat[c]) })

\* df.loc[mask, col] = np.nan for every col of columns, on a row in the mask
SetNaN(d, columns) ==
    [d EXCEPT !.stat = [c \in StatCols |-> IF c \in columns THEN NaN ELSE @[c]]]

\* variant: a set standing at 6-6 counts as a tiebreak set too
is_tb_AtSixAll(d, n) ==
    \/ home_set(d, n) = 7 /\ away_set(d, n) = 6
    \/ home_set(d, n) = 6 /\ away_set(d, n) = 7
    \/ home_set(d, n) = 6 /\ away_set(d, n) = 6

\* ((df[h] == 7) & (df[a] == 6)) | ((df[h] == 6) & (df[a] == 7))
is_tb(d, n) ==
    \/ home_set(d, n) = 7 /\ away_set(d, n) = 6
    \/ home_set(d, n) = 6 /\ away_set(d, n) = 7

\* ------------------------------------------------------------------------
\* Rule 1: s3 columns -> NaN for matches without set 3
\* ------------------------------------------------------------------------

\* variant: the two-set list misses "0-2"
no_s3_Only20(d) ==
    \/ isna(d.home_set3)
    \/ d.match_score \in {"2-0"}
    \/ d.match_score \in {"1-0", "0-1", "0-0"}
    \/ (d.match_score = "1-1" /\ isna(d.home_set3))

no_s3(d) ==
    \/ isna(d.home_set3)
    \/ d.match_score \in {"2-0", "0-2"}
    \/ d.match_score \in {"1-0", "0-1", "0-0"}
    \/ (d.match_score = "1-1" /\ isna(d.home_set3))

\* variant: the set-3 column list also catches the two set-3 scores
Rule1_ScoresToo(d) ==
    IF no_s3(d)
    THEN [SetNaN(d, s3_cols) EXCEPT !.home_set3 = NaN, !.away_set3 = NaN]
    ELSE d

Rule1(d) == IF no_s3(d) THEN SetNaN(d, s3_cols) ELSE d

\* ------------------------------------------------------------------------
\* Rule 1b: s2 columns -> NaN for matches without set 2
\* ------------------------------------------------------------------------

no_s2(d) ==
    \/ isna(d.home_set2)
    \/ d.match_score \in {"0-0"}
    \/ (d.match_score \in {"1-0", "0-1"} /\ isna(d.home_set2))

\* variant: the rows without set 2 are reset to 0 instead of NaN
Rule1b_WritesZero(d) ==
    IF no_s2(d)
    THEN [d EXCEPT !.stat = [c \in StatCols |-> IF c \in s2_cols THEN 0 ELSE @[c]]]
    ELSE d

Rule1b(d) == IF no_s2(d) THEN SetNaN(d, s2_cols) ELSE d

\* ------------------------------------------------------------------------
\* Rule 2: per-set TB columns -> NaN for sets played without a tiebreak
\* ------------------------------------------------------------------------

set_played(d, n) ==
    notna(home_set(d, n)) /\ notna(away_set(d, n))

not_tb(d, n) == set_played(d, n) /\ ~ is_tb(d, n)

\* variant: the column list of set n also catches the two score columns
Rule2Set_ScoresToo(d, n) ==
    IF set_played(d, n) /\ ~ is_tb(d, n)
    THEN LET t == SetNaN(d, tb_per_set_cols(n))
         IN  IF n = 1 THEN [t EXCEPT !.home_set1 = NaN, !.away_set1 = NaN]
             ELSE IF n = 2 THEN [t EXCEPT !.home_set2 = NaN, !.away_set2 = NaN]
             ELSE [t EXCEPT !.home_set3 = NaN, !.away_set3 = NaN]
    ELSE d

\* variant: only the tiebreak cells that hold 0 are set to NaN
Rule2Set_ZeroOnly(d, n) ==
    IF set_played(d, n) /\ ~ is_tb(d, n)
    THEN SetNaN(d, { c \in tb_per_set_cols(n) : d.stat[c] = 0 })
    ELSE d

\* f'home_set{set_n}', f'away_set{set_n}'
h_col(set_n) == << "home_set1", "home_set2", "home_set3" >>[set_n]

a_col(set_n) == << "away_set1", "away_set2", "away_set3" >>[set_n]

\* one iteration of "for set_n in [1, 2, 3]"
Rule2Set(d, n) ==
    IF h_col(n) \notin DOMAIN d THEN d
    ELSE IF not_tb(d, n) THEN SetNaN(d, tb_per_set_cols(n))
    ELSE d

Rule2(d) == Rule2Set(Rule2Set(Rule2Set(d, 1), 2), 3)

\* ------------------------------------------------------------------------
\* Rule 3: overall TB columns -> NaN if no set of the match had a tiebreak
\* ------------------------------------------------------------------------

\* variant: the masks of rule 2 are reused, which need the set to be played
no_tb_match_PlayedOnly(d) == not_tb(d, 1) /\ not_tb(d, 2) /\ not_tb(d, 3)

no_tb_match(d) == ~ (is_tb(d, 1) \/ is_tb(d, 2) \/ is_tb(d, 3))

Rule3(d) == IF no_tb_match(d) THEN SetNaN(d, overall_tb_cols) ELSE d

\* ------------------------------------------------------------------------
\* Rule 4: s1_mp_* -> always NaN
\* ------------------------------------------------------------------------

\* variant: only the cells that hold 0 are set to NaN
Rule4_ZeroOnly(d) == SetNaN(d, { c \in s1_mp_cols : d.stat[c] = 0 })

Rule4(d) == SetNaN(d, s1_mp_cols)

\* ------------------------------------------------------------------------
\* Rule 5: s2_mp of the set-1 winner
\* ------------------------------------------------------------------------

\* variant: a tied set 1 is given to the home side
set1_winner_HomeOnTie(d) ==
    LET h_s1 == d.home_set1
        a_s1 == d.away_set1
    IN  IF isna(h_s1) \/ isna(a_s1) THEN "none"
        ELSE IF Unparseable \in {h_s1, a_s1} THEN "none"
        ELSE IF h_s1 >= a_s1 THEN "home"
        ELSE "away"

\* the side that won set 1, or "none" when the loop body hits a continue
\* (a missing score, a score int() rejects, or a tied set)
set1_winner(d) ==
    LET h_s1 == d.home_set1
        a_s1 == d.away_set1
    IN  IF isna(h_s1) \/ isna(a_s1) THEN "none"
        ELSE IF Unparseable \in {h_s1, a_s1} THEN "none"
        ELSE IF h_s1 > a_s1 THEN "home"
        ELSE IF a_s1 > h_s1 THEN "away"
        ELSE "none"

\* variant: the winner's cells are set to NaN whatever they hold
Rule5Cells_AnyValue(d) ==
    IF set1_winner(d) = "none" THEN {}
    ELSE { c \in { Col(set1_winner(d), 2, stat) : stat \in {"mp_faced", "mp_saved"} } :
             notna(d.stat[c]) }

\* variant: the loop covers mp_faced only
Rule5Cells_FacedOnly(d) ==
    IF set1_winner(d) = "none" THEN {}
    ELSE { c \in { Col(set1_winner(d), 2, stat) : stat \in {"mp_faced"} } :
             d.stat[c] = 0 }

\* the cells the loop "for stat in ['mp_faced', 'mp_saved']" sets to NaN:
\* those of the winner that are exactly 0
Rule5Cells(d) ==
    IF set1_winner(d) = "none" THEN {}
    ELSE { c \in { Col(set1_winner(d), 2, stat) : stat \in {"mp_faced", "mp_saved"} } :
             d.stat[c] = 0 }

Rule5(d) == SetNaN(d, Rule5Cells(d))

\* ------------------------------------------------------------------------
\* Rules 6-7: saved -> NaN when faced == 0, converted -> NaN when
\* opportunities == 0
\* ------------------------------------------------------------------------

\* variant: a missing faced / opportunities counter is taken for zero
PairMask_MissingIsZero(d, side, scope, pair) ==
    /\ d.stat[Col(side, scope, pair[2])] \in {0, NaN}
    /\ d.stat[Col(side, scope, pair[1])] = 0
    /\ notna(d.stat[Col(side, scope, pair[1])])

\* variant: the mask forgets the faced / opportunities column
PairMask_IgnoresFaced(d, side, scope, pair) ==
    /\ d.stat[Col(side, scope, pair[1])] = 0
    /\ notna(d.stat[Col(side, scope, pair[1])])

\* the mask of one (side, scope, pair): True, False otherwise (a comparison
\* with NaN is False)
PairMask(d, side, scope, pair) ==
    /\ d.stat[Col(side, scope, pair[2])] = 0
    /\ d.stat[Col(side, scope, pair[1])] = 0
    /\ notna(d.stat[Col(side, scope, pair[1])])

\* variant: the per-set block is missing, only the match level is gated
Rule67Cells_OverallOnly(d) ==
    UNION { { Col(side, 0, pair[1]) : pair \in
                { q \in CONDITIONAL_NAN_PAIRS : PairMask(d, side, 0, q) } } :
            side \in SideNames }

\* The loops over side, point type and scope write only saved/converted
\* columns and read only the written column itself and its faced /
\* opportunities column, so no iteration sees another iteration's write:
\* the cells nulled are those whose mask holds in the table rule 6-7 starts
\* from.
Rule67Cells(d) ==
    UNION { { Col(side, scope, pair[1]) : pair \in
                { q \in CONDITIONAL_NAN_PAIRS : PairMask(d, side, scope, q) } } :
            side \in SideNames, scope \in Scopes }

Rule67(d) == SetNaN(d, Rule67Cells(d))

\* ------------------------------------------------------------------------
\* The validation block
\* ------------------------------------------------------------------------

\* df.loc[two_set_mask, s3_cols].notna().sum().sum()
s3_residual(d) ==
    IF d.match_score \in {"2-0", "0-2"}
    THEN Cardinality({ c \in s3_cols : notna(d.stat[c]) })
    ELSE 0

\* df[s1_mp_cols].notna().sum().sum()
s1_mp_residual(d) == Cardinality({ c \in s1_mp_cols : notna(d.stat[c]) })

\* df.loc[no_tb_match, overall_tb_cols].notna().sum().sum()
tb_residual(d) ==
    IF no_tb_match(d)
    THEN Cardinality({ c \in overall_tb_cols : notna(d.stat[c]) })
    ELSE 0

\* ------------------------------------------------------------------------
\* Input tables
\* ------------------------------------------------------------------------

MatchScores == {"2-0", "0-2", "2-1", "1-1", "1-0", "0-0"}

Set1Scores == { <<6, 3>>, <<3, 6>>, <<7, 6>>, <<6, 6>>, <<NaN, NaN>> }

Set2Scores == { <<NaN, NaN>>, <<6, 3>>, <<6, 7>>, <<6, NaN>> }

Set3Scores == { <<NaN, NaN>>, <<3, 6>>, <<7, 6>>, <<NaN, 6>>, <<6, NaN>> }

\* the class of a counter: the input draws one value for the faced /
\* opportunities counters and one for every other counter
StatClass(stat) ==
    IF stat \in {"bp_faced", "bp_opportunities", "sp_faced", "mp_faced"}
        THEN "faced"
    ELSE "other"

StatClasses == {"faced", "other"}

\* the class of each column
ColClass == [ c \in StatCols |-> StatClass(StatOf(c)) ]

MakeRow(ms, s1, s2, s3, val) ==
    [ match_uid |-> << "u", "1" >>,
      player_home |-> << "A" >>, player_away |-> << "B" >>,
      player_home_id |-> << "x" >>, player_away_id |-> << "y" >>,
      match_score |-> ms,
      home_set1 |-> s1[1], away_set1 |-> s1[2],
      home_set2 |-> s2[1], away_set2 |-> s2[2],
      home_set3 |-> s3[1], away_set3 |-> s3[2],
      stat |-> [ c \in StatCols |-> val[ColClass[c]] ] ]

\* ------------------------------------------------------------------------
\* The run of main
\* ------------------------------------------------------------------------

\* the rules, in the order main applies them
RuleOrder == <<"rule1", "rule1b", "rule2", "rule3", "rule4", "rule5", "rule67">>

RuleNames == { RuleOrder[i] : i \in 1 .. Len(RuleOrder) }

\* the table a rule leaves
Apply(name, d) ==
    CASE name = "rule1" -> Rule1(d)
      [] name = "rule1b" -> Rule1b(d)
      [] name = "rule2" -> Rule2(d)
      [] name = "rule3" -> Rule3(d)
      [] name = "rule4" -> Rule4(d)
      [] name = "rule5" -> Rule5(d)
      [] name = "rule67" -> Rule67(d)

\* the columns over which a rule takes count_nans before and after
CountedCols(name) ==
    CASE name = "rule1" -> s3_cols
      [] name = "rule1b" -> s2_cols
      [] name = "rule2" ->
            tb_per_set_cols(1) \cup tb_per_set_cols(2) \cup tb_per_set_cols(3)
      [] name = "rule3" -> overall_tb_cols
      [] name = "rule4" -> s1_mp_cols

\* variant: rules 1 to 4 report the missing cells they find after the rule
Fixed_AfterOnly(name, d) ==
    CASE name = "rule5" -> Cardinality(Rule5Cells(d))
      [] name = "rule67" -> Cardinality(Rule67Cells(d))
      [] OTHER -> count_nans(Apply(name, d), CountedCols(name))

\* the number a rule reports in change_log: rules 1 to 4 the growth of
\* count_nans, rules 5 and 6-7 the number of cells they set to NaN
Fixed(name, d) ==
    CASE name = "rule5" -> Cardinality(Rule5Cells(d))
      [] name = "rule67" -> Cardinality(Rule67Cells(d))
      [] OTHER -> count_nans(Apply(name, d), CountedCols(name))
                    - count_nans(d, CountedCols(name))

\* the columns a rule reads with df[...] or df.at[...] whether or not the
\* table has them
read_unguarded(name, d) ==
    CASE name = "rule1" -> {"home_set3", "match_score"}
      [] name = "rule1b" -> {"home_set2", "match_score"}
      [] name = "rule2" -> { a_col(n) : n \in { k \in Sets : h_col(k) \in DOMAIN d } }
      [] name = "rule3" ->
            {"home_set1", "away_set1", "home_set2", "away_set2"}
                \cup (IF "home_set3" \in DOMAIN d THEN {"away_set3"} ELSE { })
      [] name = "rule4" -> { }
      [] name = "rule5" -> {"home_set1", "away_set1"}
      [] name = "rule67" -> { }

\* the rule raises KeyError on the table d
raises(name, d) == \E c \in read_unguarded(name, d) : c \notin DOMAIN d

VARIABLES
    df,                 \* the table (one row)
    df0,                \* the table as the current run loaded it
    pc,                 \* the rule main is about to apply, or "done"
    change_log,         \* cells fixed, per rule
    total_cells_fixed,
    run,                \* 1: the first run, 2: the run on its own output
    scrape,             \* apply_results: the reconciliation artifact
    changes,            \* apply_results: the fill and swap counters
    args,               \* the arguments of a classification call
    verdict,            \* what the two classification functions returned
    tool,               \* the script whose batch loop runs
    idx,                \* batch loop: the row of the shard the loop is at
    results,            \* batch loop: the results not yet saved
    output_file,        \* batch loop: the rows of the shard output file
    processed,
    stats,
    SHUTDOWN_REQUESTED,
    existing_uids

\* the state of the reconciliation scripts, which main of itf_fix_nan does
\* not touch
engineVars == <<change_log, total_cells_fixed>>

applyVars == <<scrape, changes>>

classifyVars == <<args, verdict>>

loopVars ==
    <<tool, idx, results, output_file, processed, stats, SHUTDOWN_REQUESTED,
      existing_uids>>

reconVars == <<applyVars, classifyVars, loopVars>>

\* the scripts that are not running hold nothing
NoEngine == change_log = << >> /\ total_cells_fixed = 0

NoApply == scrape = << >> /\ changes = << >>

NoClassify == args = << >> /\ verdict = << >>

NoLoop ==
    /\ tool = ""
    /\ idx = 0
    /\ results = << >>
    /\ output_file = << >>
    /\ processed = 0
    /\ stats = << >>
    /\ SHUTDOWN_REQUESTED = FALSE
    /\ existing_uids = { }

vars == <<df, df0, pc, change_log, total_cells_fixed, run, reconVars>>

Init ==
    /\ \E ms \in MatchScores, s1 \in Set1Scores, s2 \in Set2Scores,
          s3 \in Set3Scores, val \in [StatClasses -> StatVals] :
            df = MakeRow(ms, s1, s2, s3, val)
    /\ df0 = df
    /\ pc = "rule1"
    /\ change_log = [r \in RuleNames |-> 0]
    /\ total_cells_fixed = 0
    /\ run = 1
    /\ NoApply
    /\ NoClassify
    /\ NoLoop

\* one rule of a run
Step(name, next) ==
    /\ pc = name
    /\ IF raises(name, df)
       THEN /\ pc' = "KeyError"
            /\ UNCHANGED <<df, change_log, total_cells_fixed>>
       ELSE /\ df' = Apply(name, df)
            /\ LET fixed == Fixed(name, df)
               IN  /\ change_log' = [change_log EXCEPT ![name] = fixed]
                   /\ total_cells_fixed' = total_cells_fixed + fixed
            /\ pc' = next
    /\ UNCHANGED <<df0, run, reconVars>>

DoRule1 == Step("rule1", "rule1b")

DoRule1b == Step("rule1b", "rule2")

DoRule2 == Step("rule2", "rule3")

DoRule3 == Step("rule3", "rule4")

DoRule4 == Step("rule4", "rule5")

DoRule5 == Step("rule5", "rule67")

DoRule67 == Step("rule67", "done")

\* main is started again on the table the first run wrote
Rerun ==
    /\ pc = "done"
    /\ run = 1
    /\ run' = 2
    /\ pc' = "rule1"
    /\ change_log' = [r \in RuleNames |-> 0]
    /\ total_cells_fixed' = 0
    /\ df0' = df
    /\ UNCHANGED <<df, reconVars>>

Next ==
    \/ DoRule1
    \/ DoRule1b
    \/ DoRule2
    \/ DoRule3
    \/ DoRule4
    \/ DoRule5
    \/ DoRule67
    \/ Rerun

Spec == Init /\ [][Next]_vars

\* the table d without the columns cols
without(d, cols) == [ c \in DOMAIN d \ cols |-> d[c] ]

\* column families a table of another competition level may lack
MissingFamilies ==
    { { }, {"home_set3", "away_set3"}, {"home_set1", "away_set1"} }

\* main is run on tables that may lack a family of score columns
InitSchema ==
    /\ \E ms \in MatchScores, s1 \in Set1Scores, s2 \in Set2Scores,
          s3 \in Set3Scores, missing \in MissingFamilies :
            df = without(MakeRow(ms, s1, s2, s3, [k \in StatClasses |-> 0]), missing)
    /\ df0 = df
    /\ pc = "rule1"
    /\ change_log = [r \in RuleNames |-> 0]
    /\ total_cells_fixed = 0
    /\ run = 1
    /\ NoApply
    /\ NoClassify
    /\ NoLoop

SpecSchema == InitSchema /\ [][Next]_vars

\* set-1 scores with a cell that holds a text instead of a number
TextSet1Scores == { <<Unparseable, 3>>, <<6, Unparseable>> }

\* main is run on tables whose set-1 score may be unparseable
InitScores ==
    /\ \E ms \in {"2-0", "2-1"}, s1 \in Set1Scores \cup TextSet1Scores,
          s2 \in {<<6, 3>>, <<NaN, NaN>>}, val \in [StatClasses -> StatVals] :
            df = MakeRow(ms, s1, s2, <<NaN, NaN>>, val)
    /\ df0 = df
    /\ pc = "rule1"
    /\ change_log = [r \in RuleNames |-> 0]
    /\ total_cells_fixed = 0
    /\ run = 1
    /\ NoApply
    /\ NoClassify
    /\ NoLoop

SpecScores == InitScores /\ [][Next]_vars

\* main with its rule blocks in any order: pc is the set of the rules
\* already applied to df, and df0 is taken through the same number of rules
\* in the order of main
InitAnyOrder ==
    /\ \E ms \in {"2-0", "2-1"}, s1 \in {<<3, 6>>, <<7, 6>>, <<NaN, NaN>>},
          s2 \in {<<6, 3>>, <<NaN, NaN>>},
          s3 \in {<<NaN, NaN>>, <<7, 6>>}, val \in [StatClasses -> StatVals] :
            df = MakeRow(ms, s1, s2, s3, val)
    /\ df0 = df
    /\ pc = { }
    /\ change_log = [r \in RuleNames |-> 0]
    /\ total_cells_fixed = 0
    /\ run = 1
    /\ NoApply
    /\ NoClassify
    /\ NoLoop

\* the next rule block of the reordered main, and of main as written
StepAnyOrder ==
    /\ \E name \in RuleNames \ pc :
          /\ df' = Apply(name, df)
          /\ LET fixed == Fixed(name, df)
             IN  /\ change_log' = [change_log EXCEPT ![name] = fixed]
                 /\ total_cells_fixed' = total_cells_fixed + fixed
          /\ pc' = pc \cup {name}
    /\ df0' = Apply(RuleOrder[Cardinality(pc) + 1], df0)
    /\ UNCHANGED <<run, reconVars>>

SpecAnyOrder == InitAnyOrder /\ [][StepAnyOrder]_vars

TypeOK ==
    /\ pc \in RuleNames \cup {"done"}
    /\ run \in {1, 2}
    /\ \A c \in StatCols : df.stat[c] \in StatVals
    /\ \A c \in StatCols : df0.stat[c] \in StatVals

\* ------------------------------------------------------------------------
\* Properties of the nullification engine
\* ------------------------------------------------------------------------

\* a run of main has applied its last rule
Finished == pc = "done"

\* set n ended 7-6 or 6-7
Tiebreak(d, n) ==
    <<home_set(d, n), away_set(d, n)>> \in { <<7, 6>>, <<6, 7>> }

\* both scores of set n are recorded
BothScores(d, n) == home_set(d, n) # NaN /\ away_set(d, n) # NaN

\* the row has no set 3 / no set 2, by the applicability rules as the engine
\* applies them
LacksSet3(d) ==
    d.home_set3 = NaN \/ d.match_score \in {"2-0", "0-2", "1-0", "0-1", "0-0"}

LacksSet2(d) == d.home_set2 = NaN \/ d.match_score = "0-0"

LacksSet(d, n) == (n = 3 /\ LacksSet3(d)) \/ (n = 2 /\ LacksSet2(d))

AllMissing(d, cols) == \A c \in cols : d.stat[c] = NaN

TbCells(n) == { c \in StatCols : ScopeOf(c) = n /\ StatOf(c) \in TB_STATS }

\* the saved / converted column of a pair and its faced / opportunities column
SavedCol(side, scope, pair) == Col(side, scope, pair[1])

FacedCol(side, scope, pair) == Col(side, scope, pair[2])

\* cell c is one rules 1 to 4 set to NaN whatever it holds, for the row d
Unconditional(d, c) ==
    \/ ScopeOf(c) \in {2, 3} /\ LacksSet(d, ScopeOf(c))
    \/ /\ ScopeOf(c) \in Sets
       /\ StatOf(c) \in TB_STATS
       /\ BothScores(d, ScopeOf(c))
       /\ ~ Tiebreak(d, ScopeOf(c))
    \/ /\ ScopeOf(c) = 0
       /\ StatOf(c) \in TB_STATS
       /\ \A n \in Sets : ~ Tiebreak(d, n)
    \/ ScopeOf(c) = 1 /\ StatOf(c) \in {"mp_saved", "mp_faced"}

\* C1, as claimed: every statistic cell that is non-missing and non-zero in
\* the input table holds the same value in the output table.
C1_NonZeroNeverLost ==
    Finished =>
        \A c \in StatCols :
            df0.stat[c] \notin {NaN, 0} => df.stat[c] = df0.stat[c]

\* C1, amended: a non-zero input cell holds the same value in the output
\* unless it lies in a column rules 1 to 4 null unconditionally for its row
\* (set-2 / set-3 statistics of a row without that set, tiebreak statistics
\* of a played set that was no tiebreak or of a match without tiebreak,
\* set-1 match-point statistics); rules 5 and 6-7 never null a non-zero value.
C1_NonZeroKeptOutsideUnconditional ==
    Finished =>
        \A c \in StatCols :
            (df0.stat[c] \notin {NaN, 0} /\ ~ Unconditional(df0, c))
                => df.stat[c] = df0.stat[c]

C1_Witness ==
    /\ Finished
    /\ \E c \in StatCols :
         df0.stat[c] \notin {NaN, 0} /\ ~ Unconditional(df0, c)
    /\ \E c \in StatCols :
         ~ Unconditional(df0, c) /\ df0.stat[c] = 0 /\ df.stat[c] = NaN

\* C2: running the engine on its own output changes no cell: the table the
\* second run ends with is the table it loaded.
C2_Idempotent == (run = 2 /\ Finished) => df = df0

C2_Witness ==
    /\ run = 2
    /\ Finished
    /\ \E c \in StatCols : df.stat[c] = NaN
    /\ \E c \in StatCols : df.stat[c] = 0
    /\ \E c \in StatCols : df.stat[c] > 0

C4_TbMissingUnlessTiebreak ==
    Finished =>
        \A n \in Sets : ~ Tiebreak(df, n) => AllMissing(df, TbCells(n))

\* C4, amended: after the run, every set whose two scores are recorded and
\* are not 7-6 or 6-7, and every set 2 or 3 the row lacks by the
\* applicability rules, has all its tiebreak statistics missing.
C4_TbMissingForPlayedOrLackingSet ==
    Finished =>
        \A n \in Sets :
            ((BothScores(df, n) /\ ~ Tiebreak(df, n)) \/ LacksSet(df, n))
                => AllMissing(df, TbCells(n))

C4_Witness ==
    /\ Finished
    /\ df.home_set1 = 6
    /\ df.away_set1 = 6
    /\ \E c \in TbCells(1) : df0.stat[c] # NaN
    /\ AllMissing(df, TbCells(1))

\* C5: after the run a row with match_score 2-0 or 0-2 has every set-3
\* statistic missing, and a row that lacks set N (N = 2, 3) by the
\* applicability rule has every set-N statistic missing.
C5_UnplayedSetMissing ==
    Finished =>
        /\ df.match_score \in {"2-0", "0-2"}
              => AllMissing(df, { c \in StatCols : ScopeOf(c) = 3 })
        /\ s3_residual(df) = 0
        /\ \A n \in {2, 3} :
              LacksSet(df, n) => AllMissing(df, { c \in StatCols : ScopeOf(c) = n })

C5_Witness ==
    /\ Finished
    /\ df.match_score = "0-2"
    /\ df.home_set3 # NaN
    /\ \E c \in StatCols : ScopeOf(c) = 3 /\ df0.stat[c] > 0
    /\ AllMissing(df, { c \in StatCols : ScopeOf(c) = 3 })

\* C6: once rule 4 has run, and so at the end of the run, every set-1
\* match-point statistic is missing, whatever the input held and whatever
\* the scores are.
C6_Set1MatchPointMissing ==
    pc \in {"rule5", "rule67", "done"} =>
        /\ \A side \in SideNames, stat \in {"mp_saved", "mp_faced"} :
              df.stat[Col(side, 1, stat)] = NaN
        /\ s1_mp_residual(df) = 0

C6_Witness ==
    /\ Finished
    /\ BothScores(df, 1)
    /\ \A side \in SideNames, stat \in {"mp_saved", "mp_faced"} :
          df0.stat[Col(side, 1, stat)] > 0 /\ df.stat[Col(side, 1, stat)] = NaN

\* C7: after the run, a set whose two scores are present and are not 7-6 or
\* 6-7 has all its tiebreak statistics missing, non-zero input values
\* included.
C7_NonTiebreakSetNulled ==
    Finished =>
        \A n \in Sets :
            (BothScores(df0, n) /\ ~ Tiebreak(df0, n))
                => \A c \in TbCells(n) : df.stat[c] = NaN

C7_Witness ==
    /\ Finished
    /\ df0.home_set1 = 6
    /\ df0.away_set1 = 3
    /\ \A c \in TbCells(1) : df0.stat[c] > 0 /\ df.stat[c] = NaN

\* C8: after the run, a row in which no set ended 7-6 or 6-7 (a set without
\* score is no tiebreak) has all match-level tiebreak statistics missing.
C8_OverallTbMissingWithoutTiebreak ==
    Finished =>
        ((\A n \in Sets : ~ Tiebreak(df, n))
            => (AllMissing(df, TbCells(0)) /\ tb_residual(df) = 0))

C8_Witness ==
    /\ Finished
    /\ \A n \in Sets : ~ Tiebreak(df, n)
    /\ df.home_set3 = NaN
    /\ \A c \in TbCells(0) : df0.stat[c] > 0 /\ df.stat[c] = NaN

\* C9: at match level, for every side and family, saved = 0 with faced = 0
\* ends the run missing, and saved = 0 with faced > 0 ends the run still 0;
\* the same for bp_converted against bp_opportunities.
C9_OverallGating ==
    Finished =>
        \A side \in SideNames, pair \in CONDITIONAL_NAN_PAIRS :
            LET saved == SavedCol(side, 0, pair)
                faced == FacedCol(side, 0, pair)
            IN  /\ (df0.stat[faced] = 0 /\ df0.stat[saved] = 0)
                      => df.stat[saved] = NaN
                /\ (df0.stat[faced] > 0 /\ df0.stat[saved] = 0)
                      => df.stat[saved] = 0

\* the genuine zero: an opportunity existed and none was saved
C9_Witness ==
    /\ Finished
    /\ run = 1
    /\ \A side \in SideNames, pair \in CONDITIONAL_NAN_PAIRS :
          /\ df0.stat[FacedCol(side, 0, pair)] > 0
          /\ df0.stat[SavedCol(side, 0, pair)] = 0
          /\ df.stat[SavedCol(side, 0, pair)] = 0

\* C10: no step of a run un-nulls a cell or writes a value other than
\* missing: a cell missing before a rule is missing after it, and a cell a
\* rule changes is missing after it.
C10_MissingOnlyGrows ==
    [][\A c \in StatCols :
          /\ df.stat[c] = NaN => df'.stat[c] = NaN
          /\ df'.stat[c] # df.stat[c] => df'.stat[c] = NaN]_vars

C10_Witness ==
    /\ run = 1
    /\ pc = "rule2"
    /\ \E c \in StatCols : df0.stat[c] = NaN
    /\ \E c \in StatCols : df0.stat[c] # NaN /\ df.stat[c] = NaN

\* ========================================================================
\* Part 2: the apply pass, itf_combined_scraper.apply_results.
\* The loop body touches only the row it is on (df.at[idx, ...]) and reads
\* the row from the snapshot iterrows took when the pass loaded the table,
\* so the table is again one row: df is the table being written, df0 the
\* snapshot ("row" in the source).  A text cell is a sequence of characters.
\* ========================================================================

\* np.nan in a text (object) column, and the None that row.get / s.get give
\* for a column the table does not have
NaNText == << "NaN" >>

NoneText == << "None" >>

\* pd.isna / pd.notna of a text cell or of None
isnaText(v) == v = NaNText \/ v = NoneText

notnaText(v) == ~ isnaText(v)

\* str(v)
Str(v) ==
    IF v = NaNText THEN << "n", "a", "n" >>
    ELSE IF v = NoneText THEN << "N", "o", "n", "e" >>
    ELSE v

\* sep in t
Contains(t, sep) == \E i \in 1 .. Len(t) : t[i] = sep

\* t.split(sep)
RECURSIVE split(_, _)
split(t, sep) ==
    IF ~ Contains(t, sep) THEN << t >>
    ELSE LET i == CHOOSE k \in 1 .. Len(t) :
                     t[k] = sep /\ \A j \in 1 .. (k - 1) : t[j] # sep
         IN  << SubSeq(t, 1, i - 1) >> \o split(SubSeq(t, i + 1, Len(t)), sep)

\* t.strip()
RECURSIVE strip(_)
strip(t) ==
    IF t = << >> THEN t
    ELSE IF Head(t) = " " THEN strip(Tail(t))
    ELSE IF t[Len(t)] = " " THEN strip(SubSeq(t, 1, Len(t) - 1))
    ELSE t

\* row.get(col) / s.get(col)
get(r, col) == IF col \in DOMAIN r THEN r[col] ELSE NoneText

\* pd.isna(row.get(col)) or str(row.get(col)).strip() == ''
missing_or_blank(r, col) ==
    isnaText(get(r, col)) \/ strip(Str(get(r, col))) = << >>

\* f'{side}_set{set_n}_tb' and f'page_set{set_n}_tb_{side}'
tb_col(side, set_n) ==
    IF side = "home"
    THEN << "home_set1_tb", "home_set2_tb", "home_set3_tb" >>[set_n]
    ELSE << "away_set1_tb", "away_set2_tb", "away_set3_tb" >>[set_n]

page_col(side, set_n) ==
    IF side = "home"
    THEN << "page_set1_tb_home", "page_set2_tb_home", "page_set3_tb_home" >>[set_n]
    ELSE << "page_set1_tb_away", "page_set2_tb_away", "page_set3_tb_away" >>[set_n]

\* csv column -> page column of the elapsed times
time_map ==
    [ time_overall |-> "page_time_overall",
      time_set1 |-> "page_time_set1",
      time_set2 |-> "page_time_set2",
      time_set3 |-> "page_time_set3" ]

\* hc.replace('home_', 'away_', 1), for the named columns of the table
\* that start with 'home_'
away_of ==
    [ home_set1 |-> "away_set1", home_set2 |-> "away_set2",
      home_set3 |-> "away_set3",
      home_set1_tb |-> "away_set1_tb", home_set2_tb |-> "away_set2_tb",
      home_set3_tb |-> "away_set3_tb" ]

\* the same for the statistic columns, which the model holds by index
home_stat_cols == { c \in StatCols : SideOf(c) = "home" }

away_of_stat ==
    [ c \in home_stat_cols |-> Col("away", ScopeOf(c), StatOf(c)) ]

home_of_stat ==
    [ c \in StatCols \ home_stat_cols |-> Col("home", ScopeOf(c), StatOf(c)) ]

\* ------------------------------------------------------------------------
\* The blocks of the loop body
\* ------------------------------------------------------------------------

\* (table column, artifact column) of the six tiebreak scores and of the
\* four elapsed times
tb_pairs == { <<tb_col(side, n), page_col(side, n)>> : side \in SideNames, n \in Sets }

time_pairs == { <<c, time_map[c]>> : c \in DOMAIN time_map }

\* df.at[idx, p[1]] = s[p[2]] for every pair p of fills
write(d, fills, s) ==
    [ c \in DOMAIN d |->
        IF \E p \in fills : p[1] = c
        THEN s[(CHOOSE p \in fills : p[1] = c)[2]]
        ELSE d[c] ]

\* variant: a tiebreak score is filled whenever the page has one
tb_fills_Always(d, row, s) ==
    { p \in tb_pairs :
        /\ p[1] \in DOMAIN d
        /\ p[2] \in DOMAIN s
        /\ notna(s[p[2]]) }

\* the tiebreak cells the pass fills: page value present, snapshot missing
tb_fills(d, row, s) ==
    { p \in tb_pairs :
        /\ p[1] \in DOMAIN d
        /\ p[2] \in DOMAIN s
        /\ notna(s[p[2]])
        /\ isna(row[p[1]]) }

\* the elapsed times the pass fills: page value present, snapshot missing
\* or blank
time_fills(d, row, s) ==
    { p \in time_pairs :
        /\ p[1] \in DOMAIN d
        /\ p[2] \in DOMAIN s
        /\ notnaText(get(s, p[2]))
        /\ missing_or_blank(row, p[1]) }

datetime_fills(d, row, s) ==
    IF notnaText(get(s, "page_date_time")) /\ missing_or_blank(row, "list_date_time")
    THEN { <<"list_date_time", "page_date_time">> }
    ELSE { }

\* df['court_type'] = np.nan when the table has no such column
with_court_type(d) ==
    IF "court_type" \in DOMAIN d THEN d
    ELSE [ c \in DOMAIN d \cup {"court_type"} |->
             IF c = "court_type" THEN NaNText ELSE d[c] ]

surface_found(s) ==
    "page_court_type" \in DOMAIN s /\ notnaText(get(s, "page_court_type"))

surface_fills(d, row, s) ==
    IF surface_found(s) /\ missing_or_blank(row, "court_type")
    THEN { <<"court_type", "page_court_type">> }
    ELSE { }

\* variant: the two scores are put back in the order they were read
swap_match_score_Same(cur, row) ==
    LET ms == Str(get(row, "match_score"))
    IN  IF Contains(ms, "-")
        THEN LET parts == split(ms, "-")
             IN  parts[1] \o << "-" >> \o parts[2]
        ELSE cur

\* the match_score the swap block leaves: f"{parts[1]}-{parts[0]}" of the
\* snapshot's text when it holds a '-', the current value otherwise
swap_match_score(cur, row) ==
    LET ms == Str(get(row, "match_score"))
    IN  IF Contains(ms, "-")
        THEN LET parts == split(ms, "-")
             IN  parts[2] \o << "-" >> \o parts[1]
        ELSE cur

\* the row the swap block leaves: every exchanged cell is written from the
\* snapshot
swap_row(d, row) ==
    [ c \in DOMAIN d |->
        IF c = "player_home" THEN row.player_away
        ELSE IF c = "player_away" THEN row.player_home
        ELSE IF c = "player_home_id" THEN row.player_away_id
        ELSE IF c = "player_away_id" THEN row.player_home_id
        ELSE IF c \in DOMAIN away_of /\ away_of[c] \in DOMAIN d
            THEN row[away_of[c]]
        ELSE IF \E hc \in DOMAIN away_of \cap DOMAIN d : away_of[hc] = c
            THEN row[CHOOSE hc \in DOMAIN away_of : away_of[hc] = c]
        ELSE IF c = "stat"
            THEN [ k \in StatCols |->
                     IF k \in home_stat_cols THEN row.stat[away_of_stat[k]]
                     ELSE row.stat[home_of_stat[k]] ]
        ELSE IF c = "match_score" THEN swap_match_score(d.match_score, row)
        ELSE d[c] ]

\* ------------------------------------------------------------------------
\* Input tables and artifacts of the apply pass
\* ------------------------------------------------------------------------

\* match_score texts: two W-L scores, a missing score, a score written with
\* another separator
ScoreTexts ==
    { << "2", "-", "0" >>, << "1", "-", "2" >>, NaNText, << "2", ":", "0" >> }

\* a text cell read from the csv: missing, blank, or the given text
TextKinds == {"missing", "blank", "present"}

TextOf(kind, text) ==
    CASE kind = "missing" -> NaNText
      [] kind = "blank" -> << " " >>
      [] kind = "present" -> text

\* a table row: the home side holds MaxStat in every statistic, the away
\* side 0; tbh / tba are the tiebreak scores recorded for the two sides
ApplyRow(ms, tbh, tba, kind, has_court) ==
    LET named ==
          [ match_uid |-> << "u", "1" >>,
            player_home |-> << "A" >>, player_away |-> << "B" >>,
            player_home_id |-> << "x" >>, player_away_id |-> << "y" >>,
            match_score |-> ms,
            home_set1 |-> 6, away_set1 |-> 3,
            home_set2 |-> 6, away_set2 |-> 7,
            home_set3 |-> NaN, away_set3 |-> NaN,
            home_set1_tb |-> tbh, away_set1_tb |-> tba,
            home_set2_tb |-> tbh, away_set2_tb |-> tba,
            home_set3_tb |-> tbh, away_set3_tb |-> tba,
            time_overall |-> TextOf(kind, << "1", ":", "0", "5" >>),
            time_set1 |-> TextOf(kind, << "0", ":", "3", "0" >>),
            time_set2 |-> TextOf(kind, << "0", ":", "3", "5" >>),
            time_set3 |-> NaNText,
            list_date_time |-> TextOf(kind, << "0", "1", ".", "0", "2" >>),
            stat |-> [ c \in StatCols |->
                         IF SideOf(c) = "home" THEN MaxStat ELSE 0 ] ]
    IN  IF has_court
        THEN [ c \in DOMAIN named \cup {"court_type"} |->
                 IF c = "court_type" THEN TextOf(kind, << "C", "l", "a", "y" >>)
                 ELSE named[c] ]
        ELSE named

HaStatuses == {"correct", "swapped", "unknown", "error"}

\* a row of the artifact: pth / pta are the tiebreak scores the page shows
\* for its home and away side, has_text tells whether the page gave the
\* times, the date and the surface
ScrapeRow(status, pth, pta, has_text) ==
    LET pageText(text) == IF has_text THEN text ELSE NaNText
    IN  [ match_uid |-> << "u", "1" >>,
          ha_status |-> status,
          page_set1_tb_home |-> pth, page_set1_tb_away |-> pta,
          page_set2_tb_home |-> pth, page_set2_tb_away |-> pta,
          page_set3_tb_home |-> NaN, page_set3_tb_away |-> NaN,
          page_time_overall |-> pageText(<< "1", ":", "5", "9" >>),
          page_time_set1 |-> pageText(<< "0", ":", "5", "9" >>),
          page_time_set2 |-> pageText(<< "1", ":", "0", "0" >>),
          page_time_set3 |-> NaNText,
          page_date_time |-> pageText(<< "0", "3", ".", "0", "4" >>),
          page_court_type |-> pageText(<< "H", "a", "r", "d" >>) ]

\* the artifact: no row for the match, or one
Artifacts ==
    { << >> } \cup
    { << ScrapeRow(status, pth, pta, has_text) >> :
        status \in HaStatuses, pth \in {NaN, 2}, pta \in {NaN, 3},
        has_text \in BOOLEAN }

\* uid in scrape.index, and scrape.loc[uid]
joined(uid, art) == \E i \in 1 .. Len(art) : art[i].match_uid = uid

loc(art, uid) == art[CHOOSE i \in 1 .. Len(art) : art[i].match_uid = uid]

\* ------------------------------------------------------------------------
\* The pass
\* ------------------------------------------------------------------------

NoChanges ==
    [ tb_filled |-> 0, time_filled |-> 0, ha_swapped |-> 0, datetime_filled |-> 0 ]

\* changes[key] = changes.get(key, 0) + n
counted(ch, key, n) ==
    [ k \in DOMAIN ch \cup {key} |->
        IF k = key THEN (IF key \in DOMAIN ch THEN ch[key] ELSE 0) + n
        ELSE ch[k] ]

InitApply ==
    /\ \E ms \in ScoreTexts, tbh \in {NaN, 4}, tba \in {NaN, 5},
          kind \in TextKinds, has_court \in BOOLEAN :
            df = ApplyRow(ms, tbh, tba, kind, has_court)
    /\ df0 = df
    /\ scrape \in Artifacts
    /\ changes = NoChanges
    /\ pc = "join"
    /\ run = 1
    /\ NoEngine
    /\ NoClassify
    /\ NoLoop

\* uid = row['match_uid']; if uid not in scrape.index: continue
Join ==
    /\ pc = "join"
    /\ pc' = IF joined(df0.match_uid, scrape) THEN "fill_tb" ELSE "written"
    /\ UNCHANGED <<df, df0, run, applyVars, engineVars, classifyVars, loopVars>>

\* one block of the loop body that fills cells and counts them
Fill(name, next, fills, key) ==
    /\ pc = name
    /\ df' = write(df, fills, loc(scrape, df0.match_uid))
    /\ changes' = [changes EXCEPT ![key] = @ + Cardinality(fills)]
    /\ pc' = next
    /\ UNCHANGED <<df0, run, scrape, engineVars, classifyVars, loopVars>>

FillTB ==
    Fill("fill_tb", "fill_times",
         tb_fills(df, df0, loc(scrape, df0.match_uid)), "tb_filled")

FillTimes ==
    Fill("fill_times", "fill_datetime",
         time_fills(df, df0, loc(scrape, df0.match_uid)), "time_filled")

FillDateTime ==
    Fill("fill_datetime", "fill_surface",
         datetime_fills(df, df0, loc(scrape, df0.match_uid)), "datetime_filled")

FillSurface ==
    /\ pc = "fill_surface"
    /\ LET s == loc(scrape, df0.match_uid)
           fills == surface_fills(df, df0, s)
       IN  /\ df' = IF surface_found(s)
                    THEN write(with_court_type(df), fills, s)
                    ELSE df
           /\ changes' = IF fills = { } THEN changes
                         ELSE counted(changes, "surface_filled", 1)
    /\ pc' = "swap"
    /\ UNCHANGED <<df0, run, scrape, engineVars, classifyVars, loopVars>>

\* the swap block, and df.to_csv once the loop is over
Swap ==
    /\ pc = "swap"
    /\ IF loc(scrape, df0.match_uid).ha_status = "swapped"
       THEN /\ df' = swap_row(df, df0)
            /\ changes' = [changes EXCEPT !.ha_swapped = @ + 1]
       ELSE UNCHANGED <<df, changes>>
    /\ pc' = "written"
    /\ UNCHANGED <<df0, run, scrape, engineVars, classifyVars, loopVars>>

\* apply_results is run again, with the same artifact, on the table it wrote
ApplyAgain ==
    /\ pc = "written"
    /\ run = 1
    /\ run' = 2
    /\ df0' = df
    /\ changes' = NoChanges
    /\ pc' = "join"
    /\ UNCHANGED <<df, scrape, engineVars, classifyVars, loopVars>>

NextApply ==
    \/ Join
    \/ FillTB
    \/ FillTimes
    \/ FillDateTime
    \/ FillSurface
    \/ Swap
    \/ ApplyAgain

SpecApply == InitApply /\ [][NextApply]_vars

\* ------------------------------------------------------------------------
\* Properties of the apply pass
\* ------------------------------------------------------------------------

\* the pass has written the table
Written == pc = "written"

\* the status the artifact gives the row, "none" when it has no row for it
StatusOf(art, uid) == IF joined(uid, art) THEN loc(art, uid).ha_status ELSE "none"

Digits == {"0", "1", "2", "3", "4", "5", "6", "7", "8", "9"}

\* a text of the form W-L, and the text L-W
IsWL(t) == Len(t) = 3 /\ t[1] \in Digits /\ t[2] = "-" /\ t[3] \in Digits

Reversed(t) == << t[3], "-", t[1] >>

\* the cells of the pair (hc, ac) hold each other's value of the snapshot
PairExchanged(d, row, hc, ac) == d[hc] = row[ac] /\ d[ac] = row[hc]

NamesExchanged(d, row) ==
    /\ PairExchanged(d, row, "player_home", "player_away")
    /\ PairExchanged(d, row, "player_home_id", "player_away_id")

ColumnsExchanged(d, row) ==
    /\ \A hc \in DOMAIN away_of : PairExchanged(d, row, hc, away_of[hc])
    /\ \A c \in home_stat_cols :
          /\ d.stat[c] = row.stat[away_of_stat[c]]
          /\ d.stat[away_of_stat[c]] = row.stat[c]

\* C11: for a row whose status is 'swapped', the written row holds, in
\* player_home / player_away, in the two ids and in every home_ / away_
\* column pair, the counterpart's value of the row as loaded, and a
\* match_score W-L is rewritten L-W.
C11_SwapCorrect ==
    (Written /\ StatusOf(scrape, df0.match_uid) = "swapped") =>
        /\ NamesExchanged(df, df0)
        /\ ColumnsExchanged(df, df0)
        /\ IsWL(df0.match_score) => df.match_score = Reversed(df0.match_score)

\* A/B, 6/3, "2-0" has become B/A, 3/6, "0-2"
C11_Witness ==
    /\ Written
    /\ run = 1
    /\ StatusOf(scrape, df0.match_uid) = "swapped"
    /\ df0.player_home = << "A" >> /\ df.player_home = << "B" >>
    /\ df0.home_set1 = 6 /\ df.home_set1 = 3 /\ df.away_set1 = 6
    /\ df0.match_score = << "2", "-", "0" >>
    /\ df.match_score = << "0", "-", "2" >>

\* C12: running the pass again, with the same artifact, on the table it
\* has written changes nothing: the second pass writes the table it loaded.
C12_ApplyIdempotent ==
    (run = 2 /\ Written) => df = df0

\* the match_score new is the exchanged form of the loaded text old: L-W
\* for a text W-L; a missing score has no sides and is its own exchange;
\* any other text has no exchanged form
ScoreExchanged(new, old) ==
    IF IsWL(old) THEN new = Reversed(old)
    ELSE isnaText(old) /\ new = old

\* every one of the names, ids, column pairs and match_score is exchanged
AllExchanged(d, row) ==
    /\ NamesExchanged(d, row)
    /\ ColumnsExchanged(d, row)
    /\ ScoreExchanged(d.match_score, row.match_score)

\* none of them differs between the rows d and e
NoneExchanged(d, e) ==
    /\ \A c \in {"player_home", "player_away", "player_home_id",
                 "player_away_id", "match_score", "stat"} : e[c] = d[c]
    /\ \A hc \in DOMAIN away_of : e[hc] = d[hc] /\ e[away_of[hc]] = d[away_of[hc]]

\* C13: the swap is atomic per row: the swap block of the pass leaves the
\* names, the ids, every home_ / away_ column pair and match_score either
\* all exchanged (against the row as loaded) or all as it found them,
\* whatever the match_score text.
C13_SwapAtomic ==
    [][pc = "swap" => (AllExchanged(df', df0) \/ NoneExchanged(df, df'))]_vars

\* the positions of the pass at which a backfill block runs
BackfillSteps == {"fill_tb", "fill_times", "fill_datetime", "fill_surface"}

\* the fields backfill may write: numeric tiebreak scores and text fields
TbTargets == { p[1] : p \in tb_pairs }

TextTargets == DOMAIN time_map \cup {"list_date_time", "court_type"}

\* the cell holds a value that is present and not blank
PresentTb(v) == v # NaN

PresentText(v) == ~ isnaText(v) /\ strip(v) # << >>

\* C14: a backfill block never writes to a field whose current value is
\* present and non-blank: such a tiebreak score, elapsed time, date-time or
\* court surface holds the same value after the block as before it.
C14_BackfillNonDestructive ==
    [][(pc \in BackfillSteps) =>
          ( (\A c \in TbTargets : PresentTb(df[c]) => df'[c] = df[c])
            /\ (\A c \in TextTargets \cap DOMAIN df :
                    PresentText(df[c]) => df'[c] = df[c]) )]_vars

\* the page offers 2 and 1:59 where the row holds 4 and 1:05; the blocks
\* have filled the missing away score and left the recorded values
C14_Witness ==
    /\ pc = "swap"
    /\ run = 1
    /\ loc(scrape, df0.match_uid).page_set1_tb_home = 2
    /\ loc(scrape, df0.match_uid).page_time_overall = << "1", ":", "5", "9" >>
    /\ df0.home_set1_tb = 4 /\ df.home_set1_tb = 4
    /\ df0.away_set1_tb = NaN /\ df.away_set1_tb = 3
    /\ df.time_overall = << "1", ":", "0", "5" >>
    /\ df.court_type = << "C", "l", "a", "y" >>

\* (table column, artifact column) of every backfill target
TbTargetPairs == tb_pairs

TextTargetPairs ==
    time_pairs \cup { <<"list_date_time", "page_date_time">>,
                      <<"court_type", "page_court_type">> }

\* the target cells that were missing (or blank) in the row as loaded and
\* hold the page-fact value in the row d
FilledTb(d, row, s) ==
    { p \in TbTargetPairs :
        row[p[1]] = NaN /\ s[p[2]] # NaN /\ d[p[1]] = s[p[2]] }

FilledText(d, row, s) ==
    { p \in TextTargetPairs :
        /\ ~ PresentText(get(row, p[1]))
        /\ PresentText(s[p[2]])
        /\ get(d, p[1]) = s[p[2]] }

\* the sum of the four fill counters
FillCount(ch) ==
    ch.tb_filled + ch.time_filled + ch.datetime_filled
        + (IF "surface_filled" \in DOMAIN ch THEN ch.surface_filled ELSE 0)

\* C15: after a pass the fill counters sum to the number of backfill target
\* cells that were missing in the loaded table and hold a filled page-fact
\* value in the written table, also for rows backfilled and swapped in the
\* same pass.
C15_CountersExact ==
    (Written /\ joined(df0.match_uid, scrape)) =>
        LET s == loc(scrape, df0.match_uid)
        IN  FillCount(changes)
              = Cardinality(FilledTb(df, df0, s)) + Cardinality(FilledText(df, df0, s))

\* C20: in the written table every backfill target that was missing in the
\* loaded row and whose page fact is present holds the page-fact value,
\* whether the row's status is correct, swapped or unknown.
C20_BackfillSurvives ==
    (/\ Written
     /\ StatusOf(scrape, df0.match_uid) \in {"correct", "swapped", "unknown"}) =>
        LET s == loc(scrape, df0.match_uid)
        IN  /\ \A p \in TbTargetPairs :
                  (df0[p[1]] = NaN /\ s[p[2]] # NaN) => df[p[1]] = s[p[2]]
            /\ \A p \in TextTargetPairs :
                  (~ PresentText(get(df0, p[1])) /\ PresentText(s[p[2]]))
                      => get(df, p[1]) = s[p[2]]

\* ========================================================================
\* Part 3: the classification of the home/away assignment,
\* itf_combined_scraper.determine_home_away_status and
\* itf_home_away_auditor.determine_status.  Names and ids are texts; a page
\* value may be None.
\* ========================================================================

\* the truth value Python gives a text or None
truthy(v) == v # NoneText /\ v # << >>

\* ch.lower() for the letters of the inputs
lower_char(ch) ==
    CASE ch = "A" -> "a" [] ch = "B" -> "b" [] ch = "C" -> "c" [] OTHER -> ch

\* t.lower()
lower(t) == [ i \in 1 .. Len(t) |-> lower_char(t[i]) ]

\* t.split(): the maximal runs of non-blank characters
RECURSIVE split_ws(_)
split_ws(t) ==
    IF t = << >> THEN << >>
    ELSE IF Head(t) = " " THEN split_ws(Tail(t))
    ELSE IF Contains(t, " ")
        THEN LET i == CHOOSE k \in 1 .. Len(t) :
                         t[k] = " " /\ \A j \in 1 .. (k - 1) : t[j] # " "
             IN  << SubSeq(t, 1, i - 1) >> \o split_ws(SubSeq(t, i + 1, Len(t)))
    ELSE << t >>

\* what a call returns when name.split()[-1] raises
IndexError == << "IndexError", "IndexError" >>

\* the marker a surname holds when name.split() is empty and [-1] raises
Raised == << "IndexError" >>

\* variant: the id comparison never decides
id_match_Undecided(csv_home_id, csv_away_id, page_home_id, page_away_id) == << >>

\* the result of the id comparison, << >> when it does not decide
id_match(csv_home_id, csv_away_id, page_home_id, page_away_id) ==
    IF /\ truthy(page_home_id) /\ truthy(page_away_id)
       /\ truthy(csv_home_id) /\ truthy(csv_away_id)
    THEN IF csv_home_id = page_home_id /\ csv_away_id = page_away_id
            THEN << "correct", "id_match" >>
         ELSE IF csv_home_id = page_away_id /\ csv_away_id = page_home_id
            THEN << "swapped", "id_match" >>
         ELSE << >>
    ELSE << >>

\* name.split()[-1].lower().strip() if name else ""
surname(name) ==
    IF truthy(name)
    THEN LET tokens == split_ws(name)
         IN  IF tokens = << >> THEN Raised
             ELSE strip(lower(tokens[Len(tokens)]))
    ELSE << >>

\* the comparison of the four surnames
name_match(csv_h, csv_a, page_h, page_a) ==
    IF truthy(csv_h) /\ truthy(page_h)
    THEN IF csv_h = page_h /\ csv_a = page_a
            THEN << "correct", "name_match" >>
         ELSE IF csv_h = page_a /\ csv_a = page_h
            THEN << "swapped", "name_match" >>
         ELSE << "unknown", "no_match" >>
    ELSE << "unknown", "no_match" >>

determine_home_away_status(csv_home_id, csv_away_id, page_home_id, page_away_id, csv_home_name, csv_away_name, page_home_name, page_away_name) ==
    LET by_id == id_match(csv_home_id, csv_away_id, page_home_id, page_away_id)
        csv_h == surname(csv_home_name)
        csv_a == surname(csv_away_name)
        page_h == surname(page_home_name)
        page_a == surname(page_away_name)
    IN  IF by_id # << >> THEN by_id
        ELSE IF Raised \in {csv_h, csv_a, page_h, page_a} THEN IndexError
        ELSE name_match(csv_h, csv_a, page_h, page_a)

\* the lower-case letters re.sub(r'[^a-z]', '', ...) keeps
LowerLetters ==
    { "a", "b", "c", "d", "e", "f", "g", "h", "i", "j", "k", "l", "m",
      "n", "o", "p", "q", "r", "s", "t", "u", "v", "w", "x", "y", "z" }

IsLowerLetter(ch) == ch \in LowerLetters

\* normalize(name) of determine_status
normalize(name) ==
    IF ~ truthy(name) THEN << >>
    ELSE SelectSeq(strip(lower(name)), IsLowerLetter)

\* name.split()[-1].lower() if name else ""
audit_surname(name) ==
    IF truthy(name)
    THEN LET tokens == split_ws(name)
         IN  IF tokens = << >> THEN Raised ELSE lower(tokens[Len(tokens)])
    ELSE << >>

\* the id comparison of determine_status
audit_id_match(csv_home_id, csv_away_id, page_home_id, page_away_id) ==
    IF /\ truthy(page_home_id) /\ truthy(page_away_id)
       /\ truthy(csv_home_id) /\ truthy(csv_away_id)
    THEN IF csv_home_id = page_home_id /\ csv_away_id = page_away_id
            THEN << "correct", "id_match" >>
         ELSE IF csv_home_id = page_away_id /\ csv_away_id = page_home_id
            THEN << "swapped", "id_match" >>
         ELSE << >>
    ELSE << >>

determine_status(csv_home_id, csv_away_id, page_home_id, page_away_id, csv_home_name, csv_away_name, page_home_name, page_away_name) ==
    LET by_id == audit_id_match(csv_home_id, csv_away_id, page_home_id, page_away_id)
        csv_h == normalize(csv_home_name)
        page_h == normalize(page_home_name)
        csv_h_surname == audit_surname(csv_home_name)
        csv_a_surname == audit_surname(csv_away_name)
        page_h_surname == audit_surname(page_home_name)
        page_a_surname == audit_surname(page_away_name)
    IN  IF by_id # << >> THEN by_id
        ELSE IF truthy(csv_h) /\ truthy(page_h)
            THEN IF Raised \in {csv_h_surname, csv_a_surname,
                                page_h_surname, page_a_surname}
                    THEN IndexError
                 ELSE IF /\ csv_h_surname = page_h_surname
                         /\ csv_a_surname = page_a_surname
                    THEN << "correct", "name_match" >>
                 ELSE IF /\ csv_h_surname = page_a_surname
                         /\ csv_a_surname = page_h_surname
                    THEN << "swapped", "name_match" >>
                 ELSE << "unknown", "no_match" >>
        ELSE << "unknown", "no_match" >>

\* ------------------------------------------------------------------------
\* The calls
\* ------------------------------------------------------------------------

\* names of the table (after str()): two names, an empty text, a blank
\* text, a text without letters
CsvNames ==
    { << "A", " ", "B", "o" >>, << "C", "y" >>, << >>, << " " >>, << "7" >> }

\* names of the page (after .text.strip()), None when not extracted
PageNames ==
    { << "B", "o" >>, << "C", "y" >>, << >>, NoneText, << "7" >> }

\* (home id, away id) of the table: two ids, no id column, two missing ids
\* (str(nan)), a missing away id column
CsvIds ==
    { << <<"x">>, <<"y">> >>, << << >>, << >> >>,
      << <<"n", "a", "n">>, <<"n", "a", "n">> >>, << <<"x">>, << >> >> }

\* (home id, away id) of the page, None when the player has no profile link
PageIds ==
    { << <<"x">>, <<"y">> >>, << <<"y">>, <<"x">> >>, << NoneText, NoneText >>,
      << <<"x">>, NoneText >>, << <<"x">>, <<"z">> >> }

Pending == << "pending", "pending" >>

InitClassify ==
    /\ \E ci \in CsvIds, pi \in PageIds, chn \in CsvNames, can \in CsvNames,
          phn \in PageNames, pan \in PageNames :
            args = [ csv_home_id |-> ci[1], csv_away_id |-> ci[2],
                     page_home_id |-> pi[1], page_away_id |-> pi[2],
                     csv_home_name |-> chn, csv_away_name |-> can,
                     page_home_name |-> phn, page_away_name |-> pan ]
    /\ verdict = [ scraper |-> Pending, auditor |-> Pending ]
    /\ pc = "scraper"
    /\ df = << >>
    /\ df0 = << >>
    /\ run = 1
    /\ NoEngine
    /\ NoApply
    /\ NoLoop

\* the scraper classifies the match
Classify ==
    /\ pc = "scraper"
    /\ verdict' = [verdict EXCEPT !.scraper =
          determine_home_away_status(
              args.csv_home_id, args.csv_away_id,
              args.page_home_id, args.page_away_id,
              args.csv_home_name, args.csv_away_name,
              args.page_home_name, args.page_away_name)]
    /\ pc' = "auditor"
    /\ UNCHANGED <<df, df0, run, engineVars, applyVars, args, loopVars>>

\* the auditor classifies the same match
AuditClassify ==
    /\ pc = "auditor"
    /\ verdict' = [verdict EXCEPT !.auditor =
          determine_status(
              args.csv_home_id, args.csv_away_id,
              args.page_home_id, args.page_away_id,
              args.csv_home_name, args.csv_away_name,
              args.page_home_name, args.page_away_name)]
    /\ pc' = "returned"
    /\ UNCHANGED <<df, df0, run, engineVars, applyVars, args, loopVars>>

NextClassify ==
    \/ Classify
    \/ AuditClassify

SpecClassify == InitClassify /\ [][NextClassify]_vars

\* ------------------------------------------------------------------------
\* Properties of the classification
\* ------------------------------------------------------------------------

Returned == pc = "returned"

present(v) == v # NoneText /\ v # << >>

AllIdsPresent(a) ==
    /\ present(a.csv_home_id) /\ present(a.csv_away_id)
    /\ present(a.page_home_id) /\ present(a.page_away_id)

IdsInOrder(a) ==
    a.csv_home_id = a.page_home_id /\ a.csv_away_id = a.page_away_id

IdsCrosswise(a) ==
    a.csv_home_id = a.page_away_id /\ a.csv_away_id = a.page_home_id

\* the last word of a name, in lower case, as the claim compares names
LastWord(name) ==
    IF present(name) /\ split_ws(name) # << >>
    THEN lower(split_ws(name)[Len(split_ws(name))])
    ELSE << >>

NamesInOrder(a) ==
    /\ LastWord(a.csv_home_name) = LastWord(a.page_home_name)
    /\ LastWord(a.csv_away_name) = LastWord(a.page_away_name)
    /\ LastWord(a.csv_home_name) # << >>
    /\ LastWord(a.csv_away_name) # << >>

NamesCrosswise(a) ==
    /\ LastWord(a.csv_home_name) = LastWord(a.page_away_name)
    /\ LastWord(a.csv_away_name) = LastWord(a.page_home_name)
    /\ LastWord(a.csv_home_name) # << >>
    /\ LastWord(a.csv_away_name) # << >>

\* C16: when all four ids are present, both classification functions return
\* ('correct', 'id_match') for ids equal in order and ('swapped', 'id_match')
\* for ids equal crosswise, whatever the names are.
C16_IdsHavePriority ==
    (Returned /\ AllIdsPresent(args)) =>
        /\ IdsInOrder(args) =>
              /\ verdict.scraper = << "correct", "id_match" >>
              /\ verdict.auditor = << "correct", "id_match" >>
        /\ IdsCrosswise(args) =>
              /\ verdict.scraper = << "swapped", "id_match" >>
              /\ verdict.auditor = << "swapped", "id_match" >>

\* the ids are equal crosswise while the surnames are equal in order
C16_Witness ==
    /\ Returned
    /\ AllIdsPresent(args)
    /\ IdsCrosswise(args)
    /\ NamesInOrder(args)
    /\ verdict.scraper = << "swapped", "id_match" >>
    /\ verdict.auditor = << "swapped", "id_match" >>

\* one of the four names is empty or absent
AnyNameEmpty(a) ==
    \E n \in {a.csv_home_name, a.csv_away_name, a.page_home_name, a.page_away_name} :
        ~ present(n)

\* the ids decide the call
IdsResolve(a) == AllIdsPresent(a) /\ (IdsInOrder(a) \/ IdsCrosswise(a))

\* C17: in the name fallback (ids absent or deciding nothing), a call with
\* an empty or absent name among the four returns ('unknown', 'no_match'),
\* from both classification functions.
C17_EmptyNameNeverMatches ==
    (Returned /\ ~ IdsResolve(args) /\ AnyNameEmpty(args)) =>
        /\ verdict.scraper = << "unknown", "no_match" >>
        /\ verdict.auditor = << "unknown", "no_match" >>

\* ------------------------------------------------------------------------
\* The engine on a table that lacks a column family
\* ------------------------------------------------------------------------

\* C18: on a table that lacks an expected column family the run of the
\* engine raises no error: no rule ends the run with a KeyError.
C18_MissingFamilyNoError == pc # "KeyError"

\* ========================================================================
\* Part 4.  The batch loop of a shard run (main of itf_combined_scraper.py
\* and of itf_home_away_auditor.py).  tool is the program that runs, idx
\* the position of the loop in the shard, results the in-memory buffer,
\* output_file the rows of the shard output, and pc the place of the run:
\* "loop" at the top of an iteration, "scrape" with a match in flight,
\* "finally" in the finally block, "exit" after it; "finally_raised" and
\* "IndexError" are the same two places when an exception left the loop.
\* Every cell of a result row is a text, None is NoneText.
\* ========================================================================

SAVE_EVERY == 50

\* the null method of an error row
None == "None"

\* a row of the shard with both players and their ids on it
plain_row(k) ==
    [ match_uid |-> << "u", ToString(k) >>,
      player_home |-> << "A", " ", "B", "o" >>, player_away |-> << "C", "y" >>,
      player_home_id |-> << "x" >>, player_away_id |-> << "y" >> ]

\* the rows of the shard, one more than a periodic save takes: plain rows
\* without ids (nan) or with them, then a row whose away name is blank
Shard ==
    [ k \in 1 .. SAVE_EVERY |->
        IF k % 2 = 0 THEN plain_row(k)
        ELSE [ plain_row(k) EXCEPT
                 !.player_home_id = NaNText, !.player_away_id = NaNText ] ]
    \o << [ plain_row(SAVE_EVERY + 1) EXCEPT
              !.player_home = << "C", "y" >>, !.player_away = << " " >>,
              !.player_home_id = << "y" >>, !.player_away_id = << "x" >> ] >>

\* the result dict before extraction: every field None
blank_result ==
    [ page_home_name |-> NoneText, page_home_id |-> NoneText,
      page_away_name |-> NoneText, page_away_id |-> NoneText,
      page_set1_tb_home |-> NoneText, page_set1_tb_away |-> NoneText,
      page_set2_tb_home |-> NoneText, page_set2_tb_away |-> NoneText,
      page_set3_tb_home |-> NoneText, page_set3_tb_away |-> NoneText,
      page_set1_home |-> NoneText, page_set1_away |-> NoneText,
      page_set2_home |-> NoneText, page_set2_away |-> NoneText,
      page_set3_home |-> NoneText, page_set3_away |-> NoneText,
      page_time_overall |-> NoneText, page_time_set1 |-> NoneText,
      page_time_set2 |-> NoneText, page_time_set3 |-> NoneText,
      page_date_time |-> NoneText, page_court_type |-> NoneText,
      error |-> NoneText ]

audit_blank_result ==
    [ page_home_name |-> NoneText, page_home_id |-> NoneText,
      page_away_name |-> NoneText, page_away_id |-> NoneText,
      list_date_time |-> NoneText, error |-> NoneText ]

\* where the visit of a page can fail: nowhere, while loading, at the home
\* block, at the home profile link, at the away block, at the away profile
\* link, in the score box, at the times
Failures ==
    { "none", "load", "home", "home_link", "away", "away_link", "score_box", "times" }

\* str(e) of the exception the driver raised
Message == << "Message: no such window" >>

\* the text of a surname as the page shows it
page_text(name) == LET tokens == split_ws(name)
                   IN  IF tokens = << >> THEN << >> ELSE tokens[Len(tokens)]

\* the id of a profile link, None when the player has no link
page_id(id) == IF id = NaNText THEN NoneText ELSE id

\* the pages the provider can serve for a row: the players in the order of
\* the row, in the other order, or in the order of the row without profile
\* links; with or without tiebreak, times and surface; failing at one place
\* or not at all
Pages(row) ==
    LET same == [ home_name |-> page_text(row.player_home),
                  home_id |-> page_id(row.player_home_id),
                  away_name |-> page_text(row.player_away),
                  away_id |-> page_id(row.player_away_id) ]
        other == [ home_name |-> same.away_name, home_id |-> same.away_id,
                   away_name |-> same.home_name, away_id |-> same.home_id ]
        no_links == [ same EXCEPT !.home_id = NoneText, !.away_id = NoneText ]
        served(players, facts, fails) ==
            [ home_name |-> players.home_name, home_id |-> players.home_id,
              away_name |-> players.away_name, away_id |-> players.away_id,
              facts |-> facts, fails |-> fails ]
    IN  { served(players, facts, "none") :
              players \in { same, other, no_links }, facts \in BOOLEAN }
        \cup { served(same, TRUE, fails) : fails \in Failures \ { "none" } }

\* what the provider serves for the k-th match of the shard: the rows
\* before the last plain row get their page as it is, the last two rows
\* any page
Served(k) ==
    IF k < SAVE_EVERY
    THEN { p \in Pages(Shard[k]) :
             /\ p.fails = "none" /\ p.facts
             /\ p.home_name = page_text(Shard[k].player_home)
             /\ p.home_id = page_id(Shard[k].player_home_id) }
    ELSE Pages(Shard[k])

\* scrape_match_page: the result dict after the visit of the page
scrape_match_page(page) ==
    LET home_failed == << "Home player extraction failed: " >> \o Message
        away_failed == << "Away player extraction failed: " >> \o Message
        r1 == [ blank_result EXCEPT !.page_home_name = page.home_name ]
        r2 == [ r1 EXCEPT !.page_home_id = page.home_id ]
        r3 == [ r2 EXCEPT !.page_away_name = page.away_name ]
        r4 == [ r3 EXCEPT !.page_away_id = page.away_id ]
        r5 == [ r4 EXCEPT
                  !.page_set1_tb_home = IF page.facts THEN << "5" >> ELSE NoneText,
                  !.page_set1_home = << "6" >>, !.page_set1_away = << "7" >>,
                  !.page_set2_home = << "6" >>, !.page_set2_away = << "3" >> ]
        r6 == IF page.facts
              THEN [ r5 EXCEPT
                       !.page_time_overall = << "1", ":", "3", "0" >>,
                       !.page_time_set1 = << "0", ":", "5", "0" >>,
                       !.page_time_set2 = << "0", ":", "4", "0" >> ]
              ELSE r5
        r7 == [ r6 EXCEPT !.page_date_time = << "01.02.2024 10:00" >> ]
        r8 == IF page.facts THEN [ r7 EXCEPT !.page_court_type = << "Hard" >> ] ELSE r7
    IN  CASE page.fails = "load" -> [ blank_result EXCEPT !.error = Message ]
          [] page.fails = "home" -> [ blank_result EXCEPT !.error = home_failed ]
          [] page.fails = "home_link" -> [ r1 EXCEPT !.error = home_failed ]
          [] page.fails = "away" -> [ r2 EXCEPT !.error = away_failed ]
          [] page.fails = "away_link" -> [ r3 EXCEPT !.error = away_failed ]
          [] page.fails = "score_box" -> [ r4 EXCEPT !.error = Message ]
          [] page.fails = "times" -> [ r5 EXCEPT !.error = Message ]
          [] OTHER -> r8

\* scrape_home_away: the bare except around a profile link swallows every
\* failure there, and nothing after the away block can fail
scrape_home_away(page) ==
    LET home_failed == << "Home extraction failed: " >> \o Message
        away_failed == << "Away extraction failed: " >> \o Message
        r1 == [ audit_blank_result EXCEPT !.page_home_name = page.home_name ]
        r2 == [ r1 EXCEPT !.page_home_id =
                  IF page.fails = "home_link" THEN NoneText ELSE page.home_id ]
        r3 == [ r2 EXCEPT !.page_away_name = page.away_name ]
        r4 == [ r3 EXCEPT !.page_away_id =
                  IF page.fails = "away_link" THEN NoneText ELSE page.away_id ]
        r5 == [ r4 EXCEPT !.list_date_time = << "01.02.2024 10:00" >> ]
    IN  CASE page.fails = "load" -> [ audit_blank_result EXCEPT !.error = Message ]
          [] page.fails = "home" -> [ audit_blank_result EXCEPT !.error = home_failed ]
          [] page.fails = "away" -> [ r2 EXCEPT !.error = away_failed ]
          [] OTHER -> r5

\* the page visit of the program that runs
scrape_page(program, page) ==
    IF program = "scraper" THEN scrape_match_page(page) ELSE scrape_home_away(page)

\* variant: the error of the page is not looked at and the match is classified
outcome_Classified(program, info, row) ==
    IF program = "scraper"
    THEN determine_home_away_status(Str(row.player_home_id), Str(row.player_away_id), info.page_home_id, info.page_away_id, Str(row.player_home), Str(row.player_away), info.page_home_name, info.page_away_name)
    ELSE determine_status(Str(row.player_home_id), Str(row.player_away_id), info.page_home_id, info.page_away_id, Str(row.player_home), Str(row.player_away), info.page_home_name, info.page_away_name)

\* (status, method) of a match: 'error' and None when the page gave an
\* error, the classification otherwise (IndexError when it raises)
outcome(program, info, row) ==
    IF truthy(info.error) THEN << "error", None >>
    ELSE IF program = "scraper"
    THEN determine_home_away_status(Str(row.player_home_id), Str(row.player_away_id), info.page_home_id, info.page_away_id, Str(row.player_home), Str(row.player_away), info.page_home_name, info.page_away_name)
    ELSE determine_status(Str(row.player_home_id), Str(row.player_away_id), info.page_home_id, info.page_away_id, Str(row.player_home), Str(row.player_away), info.page_home_name, info.page_away_name)

\* the result row of a match
result_row(program, row, info, o) ==
    LET csv == [ match_uid |-> Str(row.match_uid),
                 csv_home_name |-> Str(row.player_home),
                 csv_home_id |-> Str(row.player_home_id),
                 csv_away_name |-> Str(row.player_away),
                 csv_away_id |-> Str(row.player_away_id) ]
    IN  IF program = "scraper"
        THEN csv @@ [ ha_status |-> o[1], ha_method |-> o[2] ] @@ info
        ELSE csv @@ [ status |-> o[1], match_method |-> o[2] ] @@ info

\* the counters before the loop
no_stats(program) ==
    IF program = "scraper"
    THEN [ correct |-> 0, swapped |-> 0, unknown |-> 0, errors |-> 0,
           tb_found |-> 0, time_found |-> 0, surface_found |-> 0 ]
    ELSE [ correct |-> 0, swapped |-> 0, unknown |-> 0, errors |-> 0 ]

\* any(info.get(f'page_set{n}_tb_{s}') ...)
any_tb(info) ==
    \E v \in { info.page_set1_tb_home, info.page_set1_tb_away,
               info.page_set2_tb_home, info.page_set2_tb_away,
               info.page_set3_tb_home, info.page_set3_tb_away } : truthy(v)

\* the counters after a match
counted_match(program, st, info, o) ==
    IF o[1] = "error" THEN [ st EXCEPT !.errors = @ + 1 ]
    ELSE LET key == IF o[1] \in { "correct", "swapped" } THEN o[1] ELSE "unknown"
             st1 == [ st EXCEPT ![key] = @ + 1 ]
         IN  IF program = "scraper"
             THEN [ st1 EXCEPT
                      !.tb_found = IF any_tb(info) THEN @ + 1 ELSE @,
                      !.time_found = IF truthy(info.page_time_overall) THEN @ + 1 ELSE @,
                      !.surface_found = IF truthy(info.page_court_type) THEN @ + 1 ELSE @ ]
             ELSE st1

\* save_results: the rows are appended to the shard output
save_results(file, rows) == file \o rows

\* set(existing['match_uid'].dropna().astype(str)): read_csv gives NaN for
\* the text 'nan', dropna drops it
uids_of(file) ==
    { file[i].match_uid : i \in 1 .. Len(file) } \ { Str(NaNText) }

\* variant: the resume block reads nothing
uids_seen_Nothing(file, resume) == { }

\* existing_uids of a run: read from the shard output with --resume
uids_seen(file, resume) == IF resume /\ file # << >> THEN uids_of(file) ELSE { }

\* the first run of a shard: there is no shard output yet
InitLoop ==
    /\ tool \in { "scraper", "auditor" }
    /\ output_file = << >>
    /\ existing_uids = uids_seen(output_file, TRUE)
    /\ idx = 1
    /\ results = << >>
    /\ processed = 0
    /\ stats = no_stats(tool)
    /\ SHUTDOWN_REQUESTED = FALSE
    /\ pc = "loop"
    /\ df = << >>
    /\ df0 = << >>
    /\ run = 1
    /\ NoEngine
    /\ NoApply
    /\ NoClassify

notLoopVars == <<df, df0, run, engineVars, applyVars, classifyVars>>

\* signal_handler: SIGINT or SIGTERM arrives while the loop runs
Signal ==
    /\ pc \in { "loop", "scrape" }
    /\ ~ SHUTDOWN_REQUESTED
    /\ SHUTDOWN_REQUESTED' = TRUE
    /\ UNCHANGED <<pc, tool, idx, results, output_file, processed, stats, existing_uids>>
    /\ UNCHANGED notLoopVars

\* if SHUTDOWN_REQUESTED: break
Break ==
    /\ pc = "loop"
    /\ idx <= Len(Shard)
    /\ SHUTDOWN_REQUESTED
    /\ pc' = "finally"
    /\ UNCHANGED <<tool, idx, results, output_file, processed, stats, SHUTDOWN_REQUESTED, existing_uids>>
    /\ UNCHANGED notLoopVars

\* if match_uid in existing_uids: continue
SkipExisting ==
    /\ pc = "loop"
    /\ idx <= Len(Shard)
    /\ ~ SHUTDOWN_REQUESTED
    /\ Str(Shard[idx].match_uid) \in existing_uids
    /\ idx' = idx + 1
    /\ UNCHANGED <<pc, tool, results, output_file, processed, stats, SHUTDOWN_REQUESTED, existing_uids>>
    /\ UNCHANGED notLoopVars

\* the match is taken up: processed += 1 and the page is asked for
Begin ==
    /\ pc = "loop"
    /\ idx <= Len(Shard)
    /\ ~ SHUTDOWN_REQUESTED
    /\ Str(Shard[idx].match_uid) \notin existing_uids
    /\ processed' = processed + 1
    /\ pc' = "scrape"
    /\ UNCHANGED <<tool, idx, results, output_file, stats, SHUTDOWN_REQUESTED, existing_uids>>
    /\ UNCHANGED notLoopVars

\* the page answers: error branch or classification, the counters, the
\* result row, the periodic save; an IndexError of the classification
\* leaves the loop through the finally block
Record ==
    /\ pc = "scrape"
    /\ \E page \in Served(idx) :
         LET info == scrape_page(tool, page)
             o == outcome(tool, info, Shard[idx])
             buffer == Append(results, result_row(tool, Shard[idx], info, o))
         IN  IF o = IndexError
             THEN /\ pc' = "finally_raised"
                  /\ UNCHANGED <<idx, results, output_file, stats>>
             ELSE /\ stats' = counted_match(tool, stats, info, o)
                  /\ IF Len(buffer) >= SAVE_EVERY
                     THEN /\ output_file' = save_results(output_file, buffer)
                          /\ results' = << >>
                     ELSE /\ results' = buffer
                          /\ UNCHANGED output_file
                  /\ idx' = idx + 1
                  /\ pc' = "loop"
    /\ UNCHANGED <<tool, processed, SHUTDOWN_REQUESTED, existing_uids>>
    /\ UNCHANGED notLoopVars

\* the for loop has no further row
Exhausted ==
    /\ pc = "loop"
    /\ idx > Len(Shard)
    /\ pc' = "finally"
    /\ UNCHANGED <<tool, idx, results, output_file, processed, stats, SHUTDOWN_REQUESTED, existing_uids>>
    /\ UNCHANGED notLoopVars

\* finally: if results: save_results(output_file, results); after it the
\* run ends, with the traceback when an exception left the loop
Finally ==
    /\ pc \in { "finally", "finally_raised" }
    /\ output_file' = IF results # << >> THEN save_results(output_file, results)
                      ELSE output_file
    /\ pc' = IF pc = "finally" THEN "exit" ELSE "IndexError"
    /\ UNCHANGED <<tool, idx, results, processed, stats, SHUTDOWN_REQUESTED, existing_uids>>
    /\ UNCHANGED notLoopVars

\* the script is started again with --resume on the same shard, after a
\* run that ended or crashed
Resume ==
    /\ pc \in { "exit", "IndexError" }
    /\ existing_uids' = uids_seen(output_file, TRUE)
    /\ idx' = 1
    /\ results' = << >>
    /\ processed' = 0
    /\ stats' = no_stats(tool)
    /\ SHUTDOWN_REQUESTED' = FALSE
    /\ pc' = "loop"
    /\ UNCHANGED <<tool, output_file>>
    /\ UNCHANGED notLoopVars

NextLoop ==
    \/ Signal
    \/ Break
    \/ SkipExisting
    \/ Begin
    \/ Record
    \/ Exhausted
    \/ Finally
    \/ Resume

SpecLoop == InitLoop /\ [][NextLoop]_vars

\* ------------------------------------------------------------------------
\* Properties of the batch loop
\* ------------------------------------------------------------------------

\* the rows this run produced, saved or still in the buffer
RunRows ==
    LET saved == SelectSeq(output_file, LAMBDA r : r.match_uid \notin existing_uids)
    IN  IF pc \in { "exit", "IndexError" } THEN saved ELSE saved \o results

RowStatus(r) == IF tool = "scraper" THEN r.ha_status ELSE r.status

RowMethod(r) == IF tool = "scraper" THEN r.ha_method ELSE r.match_method

\* the matches the loop has taken up and is no longer working on
Attempted ==
    { k \in 1 .. Len(Shard) :
        /\ Str(Shard[k].match_uid) \notin existing_uids
        /\ \/ k < idx
           \/ k = idx /\ pc \in { "finally_raised", "IndexError" } }

\* a row carries an error exactly when its status is 'error', and then its
\* method is None
ErrorRowsMarked ==
    LET rows == RunRows
    IN  \A i \in 1 .. Len(rows) :
            /\ truthy(rows[i].error) <=> RowStatus(rows[i]) = "error"
            /\ truthy(rows[i].error) => RowMethod(rows[i]) = None

\* the loop is left only at the end of the shard or on a shutdown request
LoopGoesOn ==
    (pc \notin { "loop", "scrape" }) => (idx > Len(Shard) \/ SHUTDOWN_REQUESTED)

\* every match the loop attempted has exactly one row
OneRowEach ==
    LET rows == RunRows
    IN  \A k \in Attempted :
            Cardinality({ i \in 1 .. Len(rows) :
                            rows[i].match_uid = Str(Shard[k].match_uid) }) = 1

\* C19: a provider error does not abort the batch: the match gets one row
\* with status 'error' and a null method and is not classified, the loop
\* goes on to the next match, and every match the loop attempts yields
\* exactly one result row.
C19_ErrorDoesNotAbort == ErrorRowsMarked /\ LoopGoesOn /\ OneRowEach

\* the part of C19 about provider errors alone: after a match whose page
\* gave an error the loop is at the top of its next iteration with one more
\* row, the error row, last in the buffer or, when the periodic save has
\* just emptied the buffer, last in the shard output
ProviderErrorContained ==
    [][(pc = "scrape" /\ pc' \in { "loop", "finally_raised" } /\ stats'.errors # stats.errors) =>
          LET last == IF results' # << >> THEN results'[Len(results')]
                      ELSE output_file'[Len(output_file')]
          IN  /\ pc' = "loop" /\ idx' = idx + 1
              /\ RowStatus(last) = "error"
              /\ RowMethod(last) = None
              /\ Len(output_file') + Len(results')
                   = Len(output_file) + Len(results) + 1]_vars

\* ========================================================================
\* Part 5.  The two passes on one table: the swap block of apply_results
\* and main of itf_fix_nan.  df is taken through the engine and then
\* through the swap, df0 (a copy of the same input) through the swap and
\* then through the engine.  pc walks "rule1" .. "done" (the engine on
\* df), "swap_copy", "copy_rule1" .. "copy_rule67" (the engine on df0),
\* "compared".
\* ========================================================================

\* the match_score of the table as the text the swap block splits
score_text(ms) ==
    CASE ms = "2-0" -> << "2", "-", "0" >> [] ms = "0-2" -> << "0", "-", "2" >>
      [] ms = "2-1" -> << "2", "-", "1" >> [] ms = "1-2" -> << "1", "-", "2" >>
      [] ms = "1-0" -> << "1", "-", "0" >> [] ms = "0-1" -> << "0", "-", "1" >>
      [] ms = "1-1" -> << "1", "-", "1" >> [] ms = "0-0" -> << "0", "-", "0" >>

\* the value the engine reads back from the text the swap block wrote
score_name(t) ==
    CHOOSE ms \in {"2-0", "0-2", "2-1", "1-2", "1-0", "0-1", "1-1", "0-0"} :
        score_text(ms) = t

\* the swap block on a table of the engine (a row with ha_status 'swapped')
swap_table(d) ==
    LET t == [d EXCEPT !.match_score = score_text(d.match_score)]
        swapped == swap_row(t, t)
    IN  [swapped EXCEPT !.match_score = score_name(swapped.match_score)]

\* a table row whose two sides hold different statistics
SidedRow(ms, s1, s2, s3, hv, av) ==
    [ MakeRow(ms, s1, s2, s3, [k \in StatClasses |-> hv]) EXCEPT
        !.stat = [ c \in StatCols |-> IF c \in home_stat_cols THEN hv ELSE av ] ]

InitOrder ==
    /\ \E ms \in MatchScores, s1 \in Set1Scores, s2 \in Set2Scores,
          s3 \in Set3Scores, hv \in StatVals, av \in StatVals :
            df = SidedRow(ms, s1, s2, s3, hv, av)
    /\ df0 = df
    /\ pc = "rule1"
    /\ change_log = [r \in RuleNames |-> 0]
    /\ total_cells_fixed = 0
    /\ run = 1
    /\ NoApply
    /\ NoClassify
    /\ NoLoop

\* the swap block runs on the table the engine wrote
SwapAfter ==
    /\ pc = "done"
    /\ df' = swap_table(df)
    /\ pc' = "swap_copy"
    /\ UNCHANGED <<df0, change_log, total_cells_fixed, run, reconVars>>

\* the swap block runs on the copy of the input
SwapBefore ==
    /\ pc = "swap_copy"
    /\ df0' = swap_table(df0)
    /\ pc' = "copy_rule1"
    /\ UNCHANGED <<df, change_log, total_cells_fixed, run, reconVars>>

\* the places of the engine on the swapped copy, in the order of main
CopyPlaces ==
    << "copy_rule1", "copy_rule1b", "copy_rule2", "copy_rule3", "copy_rule4",
       "copy_rule5", "copy_rule67", "compared" >>

\* one rule of the engine on the swapped copy
CopyRule ==
    /\ \E i \in 1 .. Len(RuleOrder) :
          /\ pc = CopyPlaces[i]
          /\ df0' = Apply(RuleOrder[i], df0)
          /\ pc' = CopyPlaces[i + 1]
    /\ UNCHANGED <<df, change_log, total_cells_fixed, run, reconVars>>

NextOrder ==
    \/ DoRule1
    \/ DoRule1b
    \/ DoRule2
    \/ DoRule3
    \/ DoRule4
    \/ DoRule5
    \/ DoRule67
    \/ SwapAfter
    \/ SwapBefore
    \/ CopyRule

SpecOrder == InitOrder /\ [][NextOrder]_vars

\* C21: the engine followed by the swap and the swap followed by the engine
\* leave the same row.
C21_PassesCommute == (pc = "compared") => df = df0

\* the third-set scores of the input are both recorded or both missing
Set3Symmetric == (df.home_set3 = NaN) <=> (df.away_set3 = NaN)

Set2Symmetric == (df.home_set2 = NaN) <=> (df.away_set2 = NaN)

\* the two orders agree on every row whose set-2 and set-3 scores are
\* recorded for both sides or for neither
CommuteOnSymmetricScores ==
    (pc = "compared" /\ Set3Symmetric /\ Set2Symmetric) => df = df0

\* ------------------------------------------------------------------------
\* Further properties of the nullification engine
\* ------------------------------------------------------------------------

\* the match scores that decide or break off a match before a third set
ShortScores == {"2-0", "0-2", "1-0", "0-1", "0-0"}

\* C22: under the set-3 applicability rule, a row whose match_score is not
\* 2-0, 0-2, 1-0, 0-1 or 0-0 and whose third-set scores are not both
\* missing keeps every set-3 statistic.
C22_Set3KeptWhenScored ==
    [][(/\ pc = "rule1"
        /\ df.match_score \notin ShortScores
        /\ ~ (df.home_set3 = NaN /\ df.away_set3 = NaN))
          => \A c \in StatCols : ScopeOf(c) = 3 => df'.stat[c] = df.stat[c]]_vars

\* the same for the rows whose home_set3 is recorded
Set3KeptWhenHomeScored ==
    [][(/\ pc = "rule1"
        /\ df.match_score \notin ShortScores
        /\ df.home_set3 # NaN)
          => \A c \in StatCols : ScopeOf(c) = 3 => df'.stat[c] = df.stat[c]]_vars

Parseable(d) ==
    d.home_set1 \notin {NaN, Unparseable} /\ d.away_set1 \notin {NaN, Unparseable}

\* the side with the higher set-1 score, "none" when there is none
Set1Leader(d) ==
    IF ~ Parseable(d) \/ d.home_set1 = d.away_set1 THEN "none"
    ELSE IF d.home_set1 > d.away_set1 THEN "home" ELSE "away"

MpCells(side) == { Col(side, 2, "mp_faced"), Col(side, 2, "mp_saved") }

\* C24: in the set-2 match-point rule, a row with two parseable, unequal
\* set-1 scores has the set-1 winner's set-2 mp_faced and mp_saved made
\* missing where they are exactly 0 and kept where they are not, and no
\* other cell changed (the loser's set-2 match-point cells included); a row
\* whose set-1 score is missing, unparseable or tied is left untouched.
C24_Set2MatchPointRule ==
    [][(pc = "rule5") =>
          IF Set1Leader(df) = "none" THEN df' = df
          ELSE /\ \A c \in MpCells(Set1Leader(df)) :
                     df'.stat[c] = IF df.stat[c] = 0 THEN NaN ELSE df.stat[c]
               /\ \A c \in StatCols \ MpCells(Set1Leader(df)) :
                     df'.stat[c] = df.stat[c]
               /\ df'.home_set1 = df.home_set1 /\ df'.away_set1 = df.away_set1]_vars

\* rule 5 has run on a row the home side leads: the home set-2 mp_faced
\* went from 0 to missing, the away one is still 0
C24_Witness ==
    /\ pc = "rule67"
    /\ run = 1
    /\ Set1Leader(df) = "home"
    /\ BothScores(df0, 2)
    /\ df0.stat[Col("home", 2, "mp_faced")] = 0
    /\ df.stat[Col("home", 2, "mp_faced")] = NaN
    /\ df.stat[Col("away", 2, "mp_faced")] = 0

\* C25: the rules applied in any order leave the table that the order of
\* main leaves.
C25_OrderIndependent == (pc = RuleNames) => df = df0

\* a reordered run in which the set-3 rule comes last and still has cells
\* to null, while the gating rule has already nulled a saved counter
C25_Witness ==
    /\ pc = RuleNames \ {"rule1"}
    /\ LacksSet3(df)
    /\ \E c \in StatCols : ScopeOf(c) = 3 /\ df.stat[c] # NaN
    /\ \E side \in SideNames, pair \in CONDITIONAL_NAN_PAIRS :
          /\ df.stat[FacedCol(side, 0, pair)] = 0
          /\ df.stat[SavedCol(side, 0, pair)] = NaN
          /\ df0.stat[SavedCol(side, 0, pair)] = 0

\* the columns of the table that are no statistic: match_score, the six
\* set scores, match_uid, the players and their ids
FrameCols == DOMAIN df \ {"stat"}

\* the conditions the rules derive from the scores
ScoreConditions(d) ==
    << LacksSet3(d), LacksSet2(d), Set1Leader(d),
       [n \in Sets |-> BothScores(d, n)], [n \in Sets |-> Tiebreak(d, n)] >>

\* C26: no step of the engine changes match_score, a set score or an
\* identity column, so the conditions derived from the scores are the same
\* before and after every rule.
C26_FrameOfNullification ==
    [][/\ \A col \in FrameCols : col \in DOMAIN df' /\ df'[col] = df[col]
       /\ ScoreConditions(df') = ScoreConditions(df)]_vars

\* a first run that nulled statistics of a three-set match with a tiebreak
\* and ended with the scores and the identity it loaded
C26_Witness ==
    /\ Finished
    /\ run = 1
    /\ df0.match_score = "2-1"
    /\ Tiebreak(df0, 3)
    /\ \E c \in StatCols : df0.stat[c] # NaN /\ df.stat[c] = NaN
    /\ \A col \in FrameCols : df[col] = df0[col]
    /\ df.player_home = << "A" >>

\* the cells that hold a value in table a and are missing in table b
Lost(a, b) == { c \in StatCols : a.stat[c] # NaN /\ b.stat[c] = NaN }

\* C27: the count of each rule is the number of cells that held a value
\* before the rule and are missing after it, the total grows by the same
\* number (no cell is counted twice), and at the end of a run
\* total_cells_fixed is the number of statistic cells that held a value in
\* the input table and are missing in the output table.
C27_ChangeCounting ==
    [][(pc \in RuleNames) =>
          /\ change_log'[pc] = Cardinality(Lost(df, df'))
          /\ total_cells_fixed' = total_cells_fixed + Cardinality(Lost(df, df'))
          /\ (pc' = "done") => total_cells_fixed' = Cardinality(Lost(df0, df'))]_vars

\* a first run on a row without set 3 whose set-3 columns held missing
\* cells and values: rule 1 and rule 4 both counted cells
C27_Witness ==
    /\ Finished
    /\ run = 1
    /\ LacksSet3(df0)
    /\ \E c \in StatCols : ScopeOf(c) = 3 /\ df0.stat[c] = NaN
    /\ \E c \in StatCols : ScopeOf(c) = 3 /\ df0.stat[c] # NaN
    /\ change_log["rule1"] > 0
    /\ change_log["rule4"] > 0
    /\ total_cells_fixed = Cardinality(Lost(df0, df))

\* ------------------------------------------------------------------------
\* Further properties of the batch loop
\* ------------------------------------------------------------------------

\* the fields of a result row that hold what the page showed
PageFacts(r) ==
    DOMAIN r \ { "match_uid", "ha_status", "ha_method", "status", "match_method",
                 "csv_home_name", "csv_home_id", "csv_away_name", "csv_away_id",
                 "error" }

\* C28: a scrape result that carries an error has every page-fact field
\* null (names, ids, tiebreak scores, set scores, times, date-time, court
\* type).
C28_ErrorLeavesNoFacts ==
    \A i \in 1 .. Len(RunRows) :
        truthy(RunRows[i].error) =>
            \A k \in PageFacts(RunRows[i]) : RunRows[i][k] = NoneText

\* the same for the failures before any field is filled: the page does not
\* load, or the home block is not found
NoFactsWhenHomeBlockFails ==
    \A i \in 1 .. Len(RunRows) :
        (/\ truthy(RunRows[i].error)
         /\ RunRows[i].page_home_name = NoneText)
            => \A k \in PageFacts(RunRows[i]) : RunRows[i][k] = NoneText

\* the match_uid column of a file, row by row
uid_column(file) == [ i \in 1 .. Len(file) |-> file[i].match_uid ]

\* no match_uid stands in two rows of the file
UniqueUids(file) ==
    Cardinality({ uid_column(file)[i] : i \in 1 .. Len(file) }) = Len(file)

\* the loop takes up the match of row idx
TakenUp == pc = "loop" /\ pc' = "scrape" /\ processed' = processed + 1

\* C29: across runs of a shard started with --resume, each possibly cut
\* short by a shutdown request, a match whose match_uid is already in the
\* shard output is never scraped again, and the shard output never holds
\* two rows with the same match_uid.
C29_IdempotentResume ==
    [][/\ TakenUp => Str(Shard[idx].match_uid) \notin uids_of(output_file)
       /\ UniqueUids(output_file')]_vars

\* a resumed run that found rows of an earlier run, took up further matches
\* and ended with the whole shard in the output
C29_Witness ==
    /\ pc = "exit"
    /\ existing_uids # { }
    /\ processed > 0
    /\ Len(output_file) = Len(Shard)
    /\ uids_of(output_file) # existing_uids

\* the run is still on its way to the end of the process
Running == pc \notin { "exit", "IndexError" }

\* the step records the result of the match in flight: one more row, in the
\* buffer or, with the periodic save, in the shard output, and the loop is
\* at its next iteration
InFlightRecorded ==
    /\ pc' = "loop"
    /\ idx' = idx + 1
    /\ Len(output_file') + Len(results') = Len(output_file) + Len(results) + 1
    /\ LET last == IF results' # << >> THEN results'[Len(results')]
                   ELSE output_file'[Len(output_file')]
       IN  last.match_uid = Str(Shard[idx].match_uid)

\* the loop is left at its next iteration, with nothing started or dropped
LoopLeft == pc' = "finally" /\ UNCHANGED <<results, output_file, processed, idx>>

\* the finally block appends the whole buffer to the shard output
BufferSaved == pc' \in { "exit", "IndexError" } /\ output_file' = output_file \o results

\* the rows of the shard output that this run wrote
RowsWritten(file) == Len(SelectSeq(file, LAMBDA r : r.match_uid \notin existing_uids))

\* the parts of a graceful shutdown that do not depend on how the match in
\* flight ends
ShutdownOutsideFlight ==
    /\ (SHUTDOWN_REQUESTED /\ Running) =>
          /\ ~ TakenUp
          /\ (pc = "loop") => LoopLeft
          /\ (pc \in { "finally", "finally_raised" }) => BufferSaved
    /\ (SHUTDOWN_REQUESTED' /\ pc' = "exit") => RowsWritten(output_file') = processed'
    /\ Len(results') <= SAVE_EVERY

\* C30: once a shutdown signal has set SHUTDOWN_REQUESTED the scraper starts
\* no further match, the match in flight is finished and its result
\* recorded, the loop exits at its next iteration, and the buffer is
\* appended to the shard output before the process ends, so that no
\* processed result is lost; the buffer never holds more than SAVE_EVERY
\* results.
C30_GracefulShutdown ==
    [][/\ ShutdownOutsideFlight
       /\ (SHUTDOWN_REQUESTED /\ pc = "scrape") => InFlightRecorded]_vars

\* C30 with the match in flight allowed to end in the exception of its
\* classification: it is recorded or the run is on its way out through the
\* finally block, which still saves the buffer
ShutdownSavesBuffer ==
    [][/\ ShutdownOutsideFlight
       /\ (SHUTDOWN_REQUESTED /\ pc = "scrape") =>
             \/ InFlightRecorded
             \/ pc' = "finally_raised" /\ UNCHANGED <<results, output_file>>]_vars

\* a run that a shutdown request cut short and that saved a buffer of
\* results on its way out
ShutdownReached ==
    /\ SHUTDOWN_REQUESTED
    /\ pc = "exit"
    /\ idx <= Len(Shard)
    /\ results # << >>
    /\ processed > 1

====
